---- MODULE Spec2Model ----
(***************************************************************************)
(* Merkle commitment / decommitment vector generators of stwo-zig          *)
(* (tools/stwo-vector-gen): the grouped and the lifted tree builders, the  *)
(* verifier cases derived from a base case, and the FRI fold-step          *)
(* decommitment.  Hashes are modelled as terms (collision-free), field     *)
(* elements as small naturals, usize as UsizeBits-bit naturals.            *)
(***************************************************************************)
EXTENDS Integers, Sequences, FiniteSets, TLC

\* ------------------------------------------------------------------ bounds
\* Largest column log-size drawn for a Merkle base case.
MaxLogSize == 2
\* Largest number of columns drawn for a Merkle base case.
MaxColumns == 2
\* Largest number of columns drawn for a grouped Merkle base case: three let
\* two columns share a layer below the deepest one.
MaxGroupedColumns == 3
\* Largest length of an iterator handed to one per-layer merge loop.
MaxWalkLen == 2
\* Largest number of query positions drawn for one FRI decommitment.
MaxFriQueries == 3
\* Width of the native index type (usize), scaled down from 64.
UsizeBits == 3

\* ------------------------------------------------------ integers and bits
Pow2(n) == 2 ^ n

UsizeModulus == Pow2(UsizeBits)

\* usize >> n, for n < UsizeBits
Shr(x, n) == x \div Pow2(n)

\* usize << n, for n < UsizeBits: bits shifted out are discarded
Shl(x, n) == (x * Pow2(n)) % UsizeModulus

\* x ^ 1
Xor1(x) == IF x % 2 = 0 THEN x + 1 ELSE x - 1

RECURSIVE ilog2(_)
ilog2(n) == IF n <= 1 THEN 0 ELSE 1 + ilog2(n \div 2)

Min(a, b) == IF a <= b THEN a ELSE b

RECURSIVE SeqMax(_)
SeqMax(s) ==
    IF Len(s) = 1 THEN s[1]
    ELSE LET m == SeqMax(Tail(s)) IN IF s[1] >= m THEN s[1] ELSE m

\* Option<usize>: None is -1
None == 0 - 1

\* slice[i] with the source's 0-based index
At(s, i) == s[i + 1]

\* Vec::pop
Pop(s) == SubSeq(s, 1, Len(s) - 1)

\* ----------------------------------------------------------------- hashes
\* Blake2sHash as a term: the children it was computed from (<<>> for
\* none), the field values it absorbed, and whether bit 0 of byte 0 was
\* flipped afterwards (no hasher output has flip = 1).
MkHash(children, values) == [children |-> children, values |-> values, flip |-> 0]

\* VcsMerkleHasher::hash_node(children, node_values)
hash_node(children, node_values) == MkHash(children, node_values)

\* LiftedMerkleHasher::default_with_initial_state: nothing absorbed yet
default_with_initial_state == <<>>

\* LiftedMerkleHasher::update_leaf(&[v])
update_leaf(hasher, v) == Append(hasher, v)

\* LiftedMerkleHasher::finalize
finalize(hasher) == MkHash(<<>>, hasher)

\* LiftedMerkleHasher::hash_children((left, right))
hash_children(left, right) == MkHash(<<left, right>>, <<>>)

\* bad_root.0[0] ^= 1
FlipBit(h) == [h EXCEPT !.flip = 1 - @]

\* ------------------------------------------------------- grouped builder
\* columns_by_layer.entry(log_size).or_default().push(column): the columns
\* whose log-size is L, in input order
RECURSIVE columns_by_layer(_, _, _)
columns_by_layer(cols, sizes, L) ==
    IF cols = <<>> THEN <<>>
    ELSE (IF Head(sizes) = L THEN <<Head(cols)>> ELSE <<>>)
         \o columns_by_layer(Tail(cols), Tail(sizes), L)

\* layer_columns.iter().map(|column| column[node_index]).collect()
node_values(layer_columns, node_index) ==
    [k \in 1..Len(layer_columns) |-> At(layer_columns[k], node_index)]

\* One layer of the grouped tree: node i hashes the children 2i, 2i+1 of
\* layer L+1 (none at max_log_size) and the values at i of the columns of
\* log-size L.
RECURSIVE grouped_layer(_, _, _, _)
grouped_layer(cols, sizes, max_log_size, L) ==
    LET layer_columns == columns_by_layer(cols, sizes, L)
        prev_layer == IF L = max_log_size THEN <<>>
                      ELSE grouped_layer(cols, sizes, max_log_size, L + 1)
    IN  [n \in 1..Pow2(L) |->
            hash_node(IF L = max_log_size THEN <<>>
                      ELSE <<At(prev_layer, 2 * (n - 1)),
                             At(prev_layer, 2 * (n - 1) + 1)>>,
                      node_values(layer_columns, n - 1))]

\* layer_hashes: BTreeMap<u32, Vec<Blake2sHash>>, every layer 0..=max
grouped_layer_hashes(cols, sizes) ==
    LET max_log_size == SeqMax(sizes)
    IN  [L \in 0..max_log_size |-> grouped_layer(cols, sizes, max_log_size, L)]

\* Peekable::next_if_eq(&v) is Some
next_if_eq(it, v) == it # <<>> /\ Head(it) = v

\* the iterator after next_if_eq(&v)
after_next_if_eq(it, v) == IF next_if_eq(it, v) THEN Tail(it) ELSE it

\* next_decommitment_node_for_prover with .max() in place of .min()
next_decommitment_node_for_prover_max(prev_queries, layer_queries) ==
    LET prev == IF prev_queries = <<>> THEN None ELSE Head(prev_queries) \div 2
        layer == IF layer_queries = <<>> THEN None ELSE Head(layer_queries)
    IN  IF prev = None /\ layer = None THEN None
        ELSE IF layer = None THEN prev
        ELSE IF prev = None THEN layer
        ELSE IF prev > layer THEN prev ELSE layer

\* next_decommitment_node_for_prover: the smaller of the parent of the next
\* known child and the next explicit query of the layer
next_decommitment_node_for_prover(prev_queries, layer_queries) ==
    LET prev == IF prev_queries = <<>> THEN None ELSE Head(prev_queries) \div 2
        layer == IF layer_queries = <<>> THEN None ELSE Head(layer_queries)
    IN  IF prev = None /\ layer = None THEN None
        ELSE IF layer = None THEN prev
        ELSE IF prev = None THEN layer
        ELSE Min(prev, layer)

\* emit_child without the is_none() test: the child's hash is pushed even
\* when the child is known
emit_child_always(st, prev_hashes, child) ==
    [st EXCEPT
        !.prev_layer_queries = after_next_if_eq(@, child),
        !.hash_witness = Append(@, At(prev_hashes, child))]

\* if prev_layer_queries.next_if_eq(&child).is_none() {
\*     hash_witness.push(prev_hashes[child]) }
emit_child(st, prev_hashes, child) ==
    [st EXCEPT
        !.prev_layer_queries = after_next_if_eq(@, child),
        !.hash_witness = IF next_if_eq(st.prev_layer_queries, child) THEN @
                         ELSE Append(@, At(prev_hashes, child))]

\* emit_values with the two destinations exchanged
emit_values_swapped(st, layer_columns, node_index) ==
    [st EXCEPT
        !.layer_column_queries = after_next_if_eq(@, node_index),
        !.queried_values =
            IF next_if_eq(st.layer_column_queries, node_index) THEN @
            ELSE @ \o node_values(layer_columns, node_index),
        !.column_witness =
            IF next_if_eq(st.layer_column_queries, node_index)
            THEN @ \o node_values(layer_columns, node_index) ELSE @,
        !.layer_total_queries = Append(@, node_index)]

\* the node's values go to queried_values if node_index is the next
\* explicit query of the layer, else to column_witness
emit_values(st, layer_columns, node_index) ==
    [st EXCEPT
        !.layer_column_queries = after_next_if_eq(@, node_index),
        !.queried_values =
            IF next_if_eq(st.layer_column_queries, node_index)
            THEN @ \o node_values(layer_columns, node_index) ELSE @,
        !.column_witness =
            IF next_if_eq(st.layer_column_queries, node_index) THEN @
            ELSE @ \o node_values(layer_columns, node_index),
        !.layer_total_queries = Append(@, node_index)]

\* The body of the while-let loop for a returned node_index: the two
\* children (when there is a layer below), then the node's values.
grouped_decommit_step(has_prev, prev_hashes, layer_columns, st, node_index) ==
    emit_values(
        IF has_prev
        THEN emit_child(emit_child(st, prev_hashes, 2 * node_index),
                        prev_hashes, 2 * node_index + 1)
        ELSE st,
        layer_columns, node_index)

\* The while-let loop of one layer of the grouped decommitment.  st holds
\* the two iterators and the output vectors.
RECURSIVE grouped_decommit_layer(_, _, _, _)
grouped_decommit_layer(has_prev, prev_hashes, layer_columns, st) ==
    LET node_index == next_decommitment_node_for_prover(
                          st.prev_layer_queries, st.layer_column_queries)
    IN  IF node_index = None THEN st
        ELSE grouped_decommit_layer(has_prev, prev_hashes, layer_columns,
                 grouped_decommit_step(has_prev, prev_hashes, layer_columns,
                                       st, node_index))

\* what one layer hands to the next: last_layer_queries = layer_total_queries
next_layer_state(st, queries, L) ==
    [st EXCEPT
        !.prev_layer_queries = st.layer_total_queries,
        !.layer_column_queries = IF L > 0 THEN queries[L - 1] ELSE <<>>,
        !.layer_total_queries = <<>>,
        !.visited = [@ EXCEPT ![L] = st.layer_total_queries]]

\* The loop over layers max_log_size..0 of the grouped decommitment.
RECURSIVE grouped_decommit_layers(_, _, _, _, _, _, _)
grouped_decommit_layers(cols, sizes, queries, layer_hashes, max_log_size, L, st) ==
    IF L < 0 THEN st
    ELSE grouped_decommit_layers(cols, sizes, queries, layer_hashes,
             max_log_size, L - 1,
             next_layer_state(
                 grouped_decommit_layer(
                     L # max_log_size,
                     IF L = max_log_size THEN <<>> ELSE layer_hashes[L + 1],
                     columns_by_layer(cols, sizes, L), st),
                 queries, L))

\* the outputs of the base case, given the tree
grouped_decommit(cols, sizes, queries, layer_hashes, max_log_size) ==
    grouped_decommit_layers(cols, sizes, queries, layer_hashes, max_log_size,
        max_log_size,
        [root |-> At(layer_hashes[0], 0),
         layers |-> layer_hashes,
         prev_layer_queries |-> <<>>,
         layer_column_queries |-> queries[max_log_size],
         queried_values |-> <<>>,
         hash_witness |-> <<>>,
         column_witness |-> <<>>,
         layer_total_queries |-> <<>>,
         visited |-> [L \in 0..max_log_size |-> <<>>]])

\* build_vcs_base_case, after the inputs are drawn: the tree, its root and
\* the decommitment of the queries.
grouped_prove(cols, sizes, queries) ==
    grouped_decommit(cols, sizes, queries, grouped_layer_hashes(cols, sizes),
                     SeqMax(sizes))

\* ------------------------------------------------------ grouped verifier
\* MerkleVerificationError, and Ok
Ok == "Ok"
WitnessTooShort == "WitnessTooShort"
WitnessTooLong == "WitnessTooLong"
TooManyQueriedValues == "TooManyQueriedValues"
TooFewQueriedValues == "TooFewQueriedValues"
RootMismatch == "RootMismatch"

\* iterator.take(n) and what it leaves
Take(s, n) == SubSeq(s, 1, Min(n, Len(s)))
Drop(s, n) == SubSeq(s, Min(n, Len(s)) + 1, Len(s))

\* peeking_take_while(|q| q / 2 == node_index).for_each(drop)
RECURSIVE drop_children_of(_, _)
drop_children_of(it, node_index) ==
    IF it # <<>> /\ Head(it) \div 2 = node_index
    THEN drop_children_of(Tail(it), node_index)
    ELSE it

\* a child hash: the one computed at the layer below if the child was
\* visited there, else the next entry of hash_witness
read_child(st, child) ==
    IF st.err # Ok THEN st
    ELSE IF st.prev_layer_hashes # <<>> /\ Head(st.prev_layer_hashes)[1] = child
    THEN [st EXCEPT !.prev_layer_hashes = Tail(@),
                    !.children = Append(@, Head(st.prev_layer_hashes)[2])]
    ELSE IF st.hash_witness = <<>> THEN [st EXCEPT !.err = WitnessTooShort]
    ELSE [st EXCEPT !.hash_witness = Tail(@),
                    !.children = Append(@, Head(st.hash_witness))]

\* the node's values: from queried_values if node_index is the next
\* explicit query of the layer, else from column_witness
read_values(st, n_columns_in_layer, node_index) ==
    IF st.err # Ok THEN st
    ELSE IF next_if_eq(st.layer_column_queries, node_index)
    THEN IF Len(st.queried_values) < n_columns_in_layer
         THEN [st EXCEPT !.err = TooFewQueriedValues]
         ELSE [st EXCEPT !.values = Take(st.queried_values, n_columns_in_layer),
                         !.queried_values = Drop(@, n_columns_in_layer)]
    ELSE IF Len(st.column_witness) < n_columns_in_layer
         THEN [st EXCEPT !.err = WitnessTooShort]
         ELSE [st EXCEPT !.values = Take(st.column_witness, n_columns_in_layer),
                         !.column_witness = Drop(@, n_columns_in_layer)]

\* the node's hash joins the layer's computed hashes
finish_node(st, node_index) ==
    IF st.err # Ok THEN st
    ELSE [st EXCEPT
            !.prev_layer_queries = drop_children_of(@, node_index),
            !.layer_column_queries = after_next_if_eq(@, node_index),
            !.layer_total_queries =
                Append(@, <<node_index, hash_node(st.children, st.values)>>),
            !.children = <<>>,
            !.values = <<>>]

\* the verifier's merge of the two ascending position iterators
next_decommitment_node(prev_queries, layer_queries) ==
    IF prev_queries = <<>> /\ layer_queries = <<>> THEN None
    ELSE IF layer_queries = <<>> THEN Head(prev_queries) \div 2
    ELSE IF prev_queries = <<>> THEN Head(layer_queries)
    ELSE Min(Head(prev_queries) \div 2, Head(layer_queries))

\* One layer of the verifier's replay: the same merge walk as the builder.
\* st.err is Ok until a stream runs dry.
RECURSIVE grouped_verify_layer(_, _, _)
grouped_verify_layer(has_prev, n_columns_in_layer, st) ==
    LET node_index == next_decommitment_node(
                          st.prev_layer_queries, st.layer_column_queries)
    IN  IF st.err # Ok \/ node_index = None THEN st
        ELSE grouped_verify_layer(has_prev, n_columns_in_layer,
                 finish_node(
                     read_values(
                         IF has_prev
                         THEN read_child(read_child(st, 2 * node_index),
                                         2 * node_index + 1)
                         ELSE st,
                         n_columns_in_layer, node_index),
                     node_index))

\* print of a sequence of pairs onto their first components
Firsts(pairs) == [k \in 1..Len(pairs) |-> pairs[k][1]]

\* what one layer of the verifier hands to the next
next_verify_state(st, queries, L) ==
    IF st.err # Ok THEN st
    ELSE [st EXCEPT
            !.prev_layer_queries = Firsts(st.layer_total_queries),
            !.prev_layer_hashes = st.layer_total_queries,
            !.layer_column_queries = IF L > 0 THEN queries[L - 1] ELSE <<>>,
            !.layer_total_queries = <<>>]

\* The verifier's loop over layers max_log_size..0.
RECURSIVE grouped_verify_layers(_, _, _, _, _)
grouped_verify_layers(sizes, queries, max_log_size, L, st) ==
    IF L < 0 \/ st.err # Ok THEN st
    ELSE grouped_verify_layers(sizes, queries, max_log_size, L - 1,
             next_verify_state(
                 grouped_verify_layer(
                     L # max_log_size,
                     Cardinality({i \in 1..Len(sizes) : sizes[i] = L}),
                     st),
                 queries, L))

\* the checks after the traversal: nothing left unread, and the one hash
\* computed at layer 0 is the root
verify_outcome(out, root) ==
    IF out.err # Ok THEN out.err
    ELSE IF out.hash_witness # <<>> THEN WitnessTooLong
    ELSE IF out.queried_values # <<>> THEN TooManyQueriedValues
    ELSE IF out.column_witness # <<>> THEN WitnessTooLong
    ELSE IF Len(out.prev_layer_hashes) # 1 THEN RootMismatch
    ELSE IF out.prev_layer_hashes[1][2] # root THEN RootMismatch
    ELSE Ok

\* the verifier's state before the first layer: the three streams unread
grouped_verify_start(sizes, queries, queried_values, hash_witness, column_witness) ==
    [err |-> Ok,
     prev_layer_queries |-> <<>>,
     prev_layer_hashes |-> <<>>,
     layer_column_queries |-> queries[SeqMax(sizes)],
     hash_witness |-> hash_witness,
     column_witness |-> column_witness,
     queried_values |-> queried_values,
     layer_total_queries |-> <<>>,
     children |-> <<>>,
     values |-> <<>>]

\* MerkleVerifier::new(root, column_log_sizes).verify(queries_per_log_size,
\* queried_values, decommitment)
MerkleVerifier_verify(root, sizes, queries, queried_values, hash_witness, column_witness) ==
    verify_outcome(
        grouped_verify_layers(sizes, queries, SeqMax(sizes), SeqMax(sizes),
            grouped_verify_start(sizes, queries, queried_values, hash_witness,
                                 column_witness)),
        root)

\* the match with the arms of the two count errors and of the two length
\* errors exchanged
merkle_error_name_swapped(err) ==
    IF err = WitnessTooShort THEN WitnessTooLong
    ELSE IF err = WitnessTooLong THEN WitnessTooShort
    ELSE IF err = TooFewQueriedValues THEN TooManyQueriedValues
    ELSE IF err = TooManyQueriedValues THEN TooFewQueriedValues
    ELSE err

\* the match with the arms of the two families exchanged: a length error
\* of the witness named as one of the queried values and back
merkle_error_name_crossed(err) ==
    IF err = WitnessTooShort THEN TooFewQueriedValues
    ELSE IF err = WitnessTooLong THEN TooManyQueriedValues
    ELSE IF err = TooFewQueriedValues THEN WitnessTooShort
    ELSE IF err = TooManyQueriedValues THEN WitnessTooLong
    ELSE err

\* merkle_error_name: the error's variant name
merkle_error_name(err) == err

\* the match of run_vcs_verifier
verdict_name(res) == IF res = Ok THEN "ok" ELSE merkle_error_name(res)

\* run_vcs_verifier
run_vcs_verifier(root, sizes, queries, queried_values, hash_witness, column_witness) ==
    verdict_name(MerkleVerifier_verify(root, sizes, queries, queried_values,
                                       hash_witness, column_witness))

\* the plain shift idx >> shift in place of the lifted index map
lifted_index_plain(idx, shift) == Shr(idx, shift)

\* -------------------------------------------------------- lifted builder
\* (idx >> (shift + 1) << 1) + (idx & 1)
lifted_index(idx, shift) == (Shr(idx, shift + 1) * 2) + (idx % 2)

\* sorted_indices.sort_by_key(|&i| (column_log_sizes[i], i)): the 1-based
\* input indices ordered by (log-size, index)
RECURSIVE sorted_indices_from(_, _)
sorted_indices_from(sizes, L) ==
    IF L > SeqMax(sizes) THEN <<>>
    ELSE SelectSeq([i \in 1..Len(sizes) |-> i], LAMBDA i : sizes[i] = L)
         \o sorted_indices_from(sizes, L + 1)

sorted_indices(sizes) == IF sizes = <<>> THEN <<>> ELSE sorted_indices_from(sizes, 0)

sorted_columns(cols, sizes) ==
    LET idx == sorted_indices(sizes) IN [k \in 1..Len(idx) |-> cols[idx[k]]]

\* the inner while: first index >= from whose column has another log-size
RECURSIVE group_end_of(_, _, _)
group_end_of(columns, from, log_size) ==
    IF from < Len(columns) /\ ilog2(Len(At(columns, from))) = log_size
    THEN group_end_of(columns, from + 1, log_size)
    ELSE from

\* for column in &columns[group_start..group_end] { hasher.update_leaf(..) }
RECURSIVE absorb_group(_, _, _, _, _)
absorb_group(hasher, columns, from, group_end, i) ==
    IF from >= group_end THEN hasher
    ELSE absorb_group(update_leaf(hasher, At(At(columns, from), i)),
                      columns, from + 1, group_end, i)

\* the outer while of build_vcs_lifted_leaves: widen, then absorb a group
RECURSIVE lifted_groups(_, _, _, _)
lifted_groups(columns, group_start, prev_layer, prev_layer_log_size) ==
    IF group_start >= Len(columns) THEN prev_layer
    ELSE
    LET log_size == ilog2(Len(At(columns, group_start)))
        group_end == group_end_of(columns, group_start + 1, log_size)
        log_ratio == log_size - prev_layer_log_size
        widened == [n \in 1..Pow2(log_size) |->
                       At(prev_layer, lifted_index(n - 1, log_ratio))]
        absorbed == [n \in 1..Pow2(log_size) |->
                        absorb_group(widened[n], columns, group_start,
                                     group_end, n - 1)]
    IN  lifted_groups(columns, group_end, absorbed, log_size)

\* build_vcs_lifted_leaves aborts on its assert
lifted_leaves_aborts(columns) == columns # <<>> /\ Len(columns[1]) < 2

\* build_vcs_lifted_leaves(columns), columns sorted by log-size
build_vcs_lifted_leaves(columns) ==
    IF columns = <<>> THEN <<finalize(default_with_initial_state)>>
    ELSE LET hashers == lifted_groups(columns, 0,
                            <<default_with_initial_state,
                              default_with_initial_state>>, 1)
         IN  [n \in 1..Len(hashers) |-> finalize(hashers[n])]

\* layers above the leaves: layers[L][i] = hash_children(layers[L+1][2i],
\* layers[L+1][2i+1]); layers[0] is the root layer (after layers.reverse())
RECURSIVE lifted_layer(_, _, _)
lifted_layer(leaves, max_log_size, L) ==
    IF L = max_log_size THEN leaves
    ELSE LET prev == lifted_layer(leaves, max_log_size, L + 1)
         IN  [n \in 1..Pow2(L) |->
                 hash_children(At(prev, 2 * (n - 1)), At(prev, 2 * (n - 1) + 1))]

lifted_layers(leaves) ==
    LET max_log_size == ilog2(Len(leaves))
    IN  [L \in 0..max_log_size |-> lifted_layer(leaves, max_log_size, L)]

\* Vec::dedup: consecutive repetitions removed
RECURSIVE dedup(_)
dedup(s) ==
    IF Len(s) <= 1 THEN s
    ELSE IF s[1] = s[2] THEN dedup(Tail(s))
    ELSE <<s[1]>> \o dedup(Tail(s))

\* queried_values: per column (input order), per query position
lifted_queried_values(cols, max_layer_log_size, query_positions) ==
    [c \in 1..Len(cols) |->
        LET log_size == ilog2(Len(cols[c]))
            shift == max_layer_log_size - log_size
        IN  [k \in 1..Len(query_positions) |->
                At(cols[c], lifted_index(query_positions[k], shift))]]

\* the layer loop without the sibling-pair test: chunk_len is always 1
RECURSIVE lifted_witness_layer_nopair(_, _, _, _)
lifted_witness_layer_nopair(prev_layer_hashes, prev_layer_queries, p, st) ==
    IF p >= Len(prev_layer_queries) THEN st
    ELSE lifted_witness_layer_nopair(prev_layer_hashes, prev_layer_queries, p + 1,
             [st EXCEPT
                 !.hash_witness =
                     Append(@, At(prev_layer_hashes,
                                  Xor1(At(prev_layer_queries, p)))),
                 !.curr_layer_queries =
                     Append(@, Shr(At(prev_layer_queries, p), 1))])

\* the layer loop pushing prev_layer_hashes[first] in place of the sibling
RECURSIVE lifted_witness_layer_self(_, _, _, _)
lifted_witness_layer_self(prev_layer_hashes, prev_layer_queries, p, st) ==
    IF p >= Len(prev_layer_queries) THEN st
    ELSE
    LET first == At(prev_layer_queries, p)
        chunk_len == IF p + 1 < Len(prev_layer_queries)
                        /\ Xor1(first) = At(prev_layer_queries, p + 1)
                     THEN 2 ELSE 1
    IN  lifted_witness_layer_self(prev_layer_hashes, prev_layer_queries,
            p + chunk_len,
            [st EXCEPT
                !.hash_witness = IF chunk_len = 1
                                 THEN Append(@, At(prev_layer_hashes, first))
                                 ELSE @,
                !.curr_layer_queries = Append(@, Shr(first, 1))])

\* the while p < prev_layer_queries.len() loop of one layer (p is 0-based)
RECURSIVE lifted_witness_layer(_, _, _, _)
lifted_witness_layer(prev_layer_hashes, prev_layer_queries, p, st) ==
    IF p >= Len(prev_layer_queries) THEN st
    ELSE
    LET first == At(prev_layer_queries, p)
        chunk_len == IF p + 1 < Len(prev_layer_queries)
                        /\ Xor1(first) = At(prev_layer_queries, p + 1)
                     THEN 2 ELSE 1
    IN  lifted_witness_layer(prev_layer_hashes, prev_layer_queries, p + chunk_len,
            [st EXCEPT
                !.hash_witness = IF chunk_len = 1
                                 THEN Append(@, At(prev_layer_hashes, Xor1(first)))
                                 ELSE @,
                !.curr_layer_queries = Append(@, Shr(first, 1))])

\* what one layer hands to the next: prev_layer_queries = curr_layer_queries
lifted_next_layer(st, layer_log_size) ==
    [hash_witness |-> st.hash_witness,
     prev_layer_queries |-> st.curr_layer_queries,
     known |-> [st.known EXCEPT ![layer_log_size] = st.curr_layer_queries]]

\* for layer_log_size in (0..layers.len() - 1).rev(): acc carries
\* hash_witness, prev_layer_queries, and the known list met at each layer
RECURSIVE lifted_witness_layers(_, _, _)
lifted_witness_layers(layers, layer_log_size, acc) ==
    IF layer_log_size < 0 THEN acc
    ELSE lifted_witness_layers(layers, layer_log_size - 1,
             lifted_next_layer(
                 lifted_witness_layer(layers[layer_log_size + 1],
                     acc.prev_layer_queries, 0,
                     [hash_witness |-> acc.hash_witness,
                      curr_layer_queries |-> <<>>,
                      known |-> acc.known]),
                 layer_log_size))

\* the hash-witness part of build_vcs_lifted_base_case (and of
\* compute_fri_layer_decommit_outputs); layers.len() - 1 is the leaf layer
lifted_hash_witness(layers, positions) ==
    lifted_witness_layers(layers, Cardinality(DOMAIN layers) - 2,
        [hash_witness |-> <<>>,
         prev_layer_queries |-> dedup(positions),
         known |-> [L \in DOMAIN layers |->
                       IF L = Cardinality(DOMAIN layers) - 1
                       THEN dedup(positions) ELSE <<>>]])

\* the outputs of the lifted base case, given the tree and the witness walk
lifted_outputs(cols, layers, query_positions, w) ==
    [root |-> At(layers[0], 0),
     layers |-> layers,
     queried_values |->
         lifted_queried_values(cols, Cardinality(DOMAIN layers) - 1,
                               query_positions),
     hash_witness |-> w.hash_witness,
     column_witness |-> <<>>,
     visited |-> w.known]

lifted_decommit(cols, layers, query_positions) ==
    lifted_outputs(cols, layers, query_positions,
                   lifted_hash_witness(layers, query_positions))

\* build_vcs_lifted_base_case, after the inputs are drawn
lifted_prove(cols, sizes, query_positions) ==
    lifted_decommit(cols,
        lifted_layers(build_vcs_lifted_leaves(sorted_columns(cols, sizes))),
        query_positions)

\* ------------------------------------------------------- lifted verifier
\* the leaf of query k: the revealed values of every column, absorbed in
\* (log-size, index) order
RECURSIVE lifted_leaf_of_query(_, _, _, _)
lifted_leaf_of_query(hasher, queried_values, order, k) ==
    IF order = <<>> THEN finalize(hasher)
    ELSE lifted_leaf_of_query(update_leaf(hasher, queried_values[Head(order)][k]),
                              queried_values, Tail(order), k)

\* the parent of a pair of computed hashes, or of one computed hash and
\* the next entry of hash_witness on the side of its missing sibling
lifted_parent(first, paired, other) ==
    <<Shr(first[1], 1),
      IF paired \/ first[1] % 2 = 0 THEN hash_children(first[2], other)
      ELSE hash_children(other, first[2])>>

\* one layer of the lifted verifier: pairs (index, hash), p is 0-based
RECURSIVE lifted_verify_layer(_, _, _)
lifted_verify_layer(prev_layer_hashes, p, st) ==
    IF st.err # Ok \/ p >= Len(prev_layer_hashes) THEN st
    ELSE IF p + 1 < Len(prev_layer_hashes)
            /\ Xor1(At(prev_layer_hashes, p)[1]) = At(prev_layer_hashes, p + 1)[1]
    THEN lifted_verify_layer(prev_layer_hashes, p + 2,
             [st EXCEPT !.curr_layer_hashes =
                 Append(@, lifted_parent(At(prev_layer_hashes, p), TRUE,
                                         At(prev_layer_hashes, p + 1)[2]))])
    ELSE IF st.hash_witness = <<>> THEN [st EXCEPT !.err = WitnessTooShort]
    ELSE lifted_verify_layer(prev_layer_hashes, p + 1,
             [st EXCEPT
                 !.hash_witness = Tail(@),
                 !.curr_layer_hashes =
                     Append(@, lifted_parent(At(prev_layer_hashes, p), FALSE,
                                             Head(st.hash_witness)))])

\* what one layer of the lifted verifier hands to the next
lifted_verify_next(st) ==
    IF st.err # Ok THEN st
    ELSE [st EXCEPT !.prev_layer_hashes = st.curr_layer_hashes,
                    !.curr_layer_hashes = <<>>]

RECURSIVE lifted_verify_layers(_, _)
lifted_verify_layers(n_layers, st) ==
    IF n_layers = 0 \/ st.err # Ok THEN st
    ELSE lifted_verify_layers(n_layers - 1,
             lifted_verify_next(lifted_verify_layer(st.prev_layer_hashes, 0, st)))

\* the checks after the walk: nothing left unread, and the one hash left
\* is the root
lifted_verify_outcome(out, root) ==
    IF out.err # Ok THEN out.err
    ELSE IF out.hash_witness # <<>> THEN WitnessTooLong
    ELSE IF Len(out.prev_layer_hashes) # 1 THEN RootMismatch
    ELSE IF out.prev_layer_hashes[1][2] # root THEN RootMismatch
    ELSE Ok

\* the lifted verifier's state before the first layer: the leaf of every
\* query rebuilt from the revealed values, the hash witness unread
lifted_verify_start(sizes, query_positions, queried_values, hash_witness) ==
    [err |-> Ok,
     hash_witness |-> hash_witness,
     prev_layer_hashes |->
         [k \in 1..Len(query_positions) |->
             <<query_positions[k],
               lifted_leaf_of_query(default_with_initial_state,
                   queried_values, sorted_indices(sizes), k)>>],
     curr_layer_hashes |-> <<>>]

\* MerkleVerifierLifted::new(root, column_log_sizes).verify(query_positions,
\* queried_values, decommitment)
MerkleVerifierLifted_verify(root, sizes, query_positions, queried_values, hash_witness) ==
    lifted_verify_outcome(
        lifted_verify_layers(SeqMax(sizes),
            lifted_verify_start(sizes, query_positions, queried_values,
                                hash_witness)),
        root)

\* merkle_error_name_lifted: the error's variant name
merkle_error_name_lifted(err) == err

\* the match of run_vcs_lifted_verifier
lifted_verdict_name(res) == IF res = Ok THEN "ok" ELSE merkle_error_name_lifted(res)

\* run_vcs_lifted_verifier
run_vcs_lifted_verifier(root, sizes, query_positions, queried_values, hash_witness) ==
    lifted_verdict_name(
        MerkleVerifierLifted_verify(root, sizes, query_positions,
                                    queried_values, hash_witness))

\* ------------------------------------------------- FRI fold decommitment
FoldStepTooLarge == "FoldStepTooLarge"
QueryOutOfRange == "QueryOutOfRange"
\* the process aborts (overflow check, assert, index out of bounds)
Panic == "panic"

FriEmpty(status) ==
    [status |-> status, decommitment_positions |-> <<>>, witness_evals |-> <<>>,
     value_map_positions |-> <<>>, value_map_values |-> <<>>]

\* the inner while left out: every query a subset of its own
subset_end_of_single(query_positions, from, fold_step, subset_key) == from

\* the inner while: first 0-based index >= from whose key differs
RECURSIVE subset_end_of(_, _, _, _)
subset_end_of(query_positions, from, fold_step, subset_key) ==
    IF from < Len(query_positions)
       /\ Shr(At(query_positions, from), fold_step) = subset_key
    THEN subset_end_of(query_positions, from + 1, fold_step, subset_key)
    ELSE from

\* the position loop without the query test: every evaluation goes to the
\* witness
RECURSIVE fri_visit_positions_allwitness(_, _, _, _, _, _)
fri_visit_positions_allwitness(column, subset_queries, position, range_end, subset_query_at, out) ==
    IF position >= range_end THEN out
    ELSE IF position >= Len(column) THEN FriEmpty(QueryOutOfRange)
    ELSE fri_visit_positions_allwitness(column, subset_queries, position + 1,
             range_end, subset_query_at,
             [status |-> Ok,
              decommitment_positions |-> Append(out.decommitment_positions, position),
              witness_evals |-> Append(out.witness_evals, At(column, position)),
              value_map_positions |-> Append(out.value_map_positions, position),
              value_map_values |-> Append(out.value_map_values, At(column, position))])

\* the position loop keeping what earlier positions produced when a position
\* lies beyond the column
RECURSIVE fri_visit_positions_partial(_, _, _, _, _, _)
fri_visit_positions_partial(column, subset_queries, position, range_end, subset_query_at, out) ==
    IF position >= range_end THEN out
    ELSE IF position >= Len(column) THEN [out EXCEPT !.status = QueryOutOfRange]
    ELSE
    LET eval == At(column, position)
        is_query == subset_query_at < Len(subset_queries)
                    /\ At(subset_queries, subset_query_at) = position
    IN  fri_visit_positions_partial(column, subset_queries, position + 1, range_end,
            IF is_query THEN subset_query_at + 1 ELSE subset_query_at,
            [status |-> Ok,
             decommitment_positions |-> Append(out.decommitment_positions, position),
             witness_evals |-> IF is_query THEN out.witness_evals
                               ELSE Append(out.witness_evals, eval),
             value_map_positions |-> Append(out.value_map_positions, position),
             value_map_values |-> Append(out.value_map_values, eval)])

\* for position in subset_start..range_end { ... }: out.status becomes
\* QueryOutOfRange at the first position beyond the column
RECURSIVE fri_visit_positions(_, _, _, _, _, _)
fri_visit_positions(column, subset_queries, position, range_end, subset_query_at, out) ==
    IF position >= range_end THEN out
    ELSE IF position >= Len(column) THEN FriEmpty(QueryOutOfRange)
    ELSE
    LET eval == At(column, position)
        is_query == subset_query_at < Len(subset_queries)
                    /\ At(subset_queries, subset_query_at) = position
    IN  fri_visit_positions(column, subset_queries, position + 1, range_end,
            IF is_query THEN subset_query_at + 1 ELSE subset_query_at,
            [status |-> Ok,
             decommitment_positions |-> Append(out.decommitment_positions, position),
             witness_evals |-> IF is_query THEN out.witness_evals
                               ELSE Append(out.witness_evals, eval),
             value_map_positions |-> Append(out.value_map_positions, position),
             value_map_values |-> Append(out.value_map_values, eval)])

\* the outer while over subsets; subset_start + subset_len is a usize
\* addition: beyond the width it aborts (overflow checks on) or wraps
RECURSIVE fri_visit_subsets(_, _, _, _, _, _)
fri_visit_subsets(column, query_positions, fold_step, overflow_checks, subset_start_idx, out) ==
    IF out.status # Ok \/ subset_start_idx >= Len(query_positions) THEN out
    ELSE
    LET subset_len == Shl(1, fold_step)
        subset_key == Shr(At(query_positions, subset_start_idx), fold_step)
        subset_end_idx == subset_end_of(query_positions, subset_start_idx + 1,
                                        fold_step, subset_key)
        subset_queries == SubSeq(query_positions, subset_start_idx + 1,
                                 subset_end_idx)
        subset_start == Shl(subset_key, fold_step)
        overflows == subset_start + subset_len >= UsizeModulus
        range_end == (subset_start + subset_len) % UsizeModulus
    IN  IF overflows /\ overflow_checks THEN FriEmpty(Panic)
        ELSE fri_visit_subsets(column, query_positions, fold_step,
                 overflow_checks, subset_end_idx,
                 fri_visit_positions(column, subset_queries, subset_start,
                                     range_end, 0, out))

\* the fold-step check with > in place of >=
compute_fri_decommit_outputs_gt(column, query_positions, fold_step, overflow_checks) ==
    IF fold_step > UsizeBits THEN FriEmpty(FoldStepTooLarge)
    ELSE fri_visit_subsets(column, query_positions, fold_step,
                           overflow_checks, 0, FriEmpty(Ok))

\* compute_fri_decommit_outputs(column, query_positions, fold_step)
compute_fri_decommit_outputs(column, query_positions, fold_step, overflow_checks) ==
    IF fold_step >= UsizeBits THEN FriEmpty(FoldStepTooLarge)
    ELSE fri_visit_subsets(column, query_positions, fold_step,
                           overflow_checks, 0, FriEmpty(Ok))

\* the coordinate columns in the order 3, 2, 1, 0
base_columns_reversed(column) ==
    [coord \in 1..4 |-> [i \in 1..Len(column) |-> column[i][5 - coord]]]

\* base_columns[coord].push(value.to_m31_array()[coord])
base_columns(column) ==
    [coord \in 1..4 |-> [i \in 1..Len(column) |-> column[i][coord]]]

FriLayerEmpty(status) ==
    [status |-> status, commitment |-> <<>>, decommitment_positions |-> <<>>,
     fri_witness |-> <<>>, hash_witness |-> <<>>,
     value_map_positions |-> <<>>, value_map_values |-> <<>>]

\* the Ok result with the first leaf taken for the commitment (layers not
\* reversed)
fri_layer_outputs_leaf(helper, layers, w) ==
    [status |-> Ok,
     commitment |-> At(layers[Cardinality(DOMAIN layers) - 1], 0),
     decommitment_positions |-> helper.decommitment_positions,
     fri_witness |-> helper.witness_evals,
     hash_witness |-> w.hash_witness,
     value_map_positions |-> helper.value_map_positions,
     value_map_values |-> helper.value_map_values]

\* the Ok result of compute_fri_layer_decommit_outputs
fri_layer_outputs(helper, layers, w) ==
    [status |-> Ok,
     commitment |-> At(layers[0], 0),
     decommitment_positions |-> helper.decommitment_positions,
     fri_witness |-> helper.witness_evals,
     hash_witness |-> w.hash_witness,
     value_map_positions |-> helper.value_map_positions,
     value_map_values |-> helper.value_map_values]

fri_layer_decommit(helper, layers) ==
    fri_layer_outputs(helper, layers,
        lifted_hash_witness(layers, helper.decommitment_positions))

\* the part of compute_fri_layer_decommit_outputs after the helper call
fri_layer_after_helper(column, helper) ==
    IF helper.status # Ok THEN FriLayerEmpty(helper.status)
    ELSE IF lifted_leaves_aborts(base_columns(column)) THEN FriLayerEmpty(Panic)
    ELSE fri_layer_decommit(helper,
             lifted_layers(build_vcs_lifted_leaves(base_columns(column))))

\* compute_fri_layer_decommit_outputs(column, query_positions, fold_step)
compute_fri_layer_decommit_outputs(column, query_positions, fold_step, overflow_checks) ==
    fri_layer_after_helper(column,
        compute_fri_decommit_outputs(column, query_positions, fold_step,
                                     overflow_checks))

\* ----------------------------------------------------- interop decoding
\* the modulus of the base field (2^31 - 1 in the source), scaled
P == 7

\* the largest u32 (scaled): wire words are 0 .. MaxWord
MaxWord == 2 * P + 1

\* checked_m31 with > in place of >=
checked_m31_gt(value) ==
    [ok |-> ~(value > P), value |-> IF value > P THEN 0 ELSE value]

\* checked_m31(value): Err on a word >= P, else the element of that value
checked_m31(value) ==
    [ok |-> ~(value >= P), value |-> IF value >= P THEN 0 ELSE value]

\* the results of a list of decodings collected: .collect::<Result<Vec<_>>>()
collect(results) ==
    [ok |-> \A i \in 1..Len(results) : results[i].ok,
     value |-> [i \in 1..Len(results) |-> results[i].value]]

\* qm31_from_wire(value): the four coordinates through checked_m31
qm31_from_wire(value) == collect([i \in 1..4 |-> checked_m31(value[i])])

\* a list of secure-field wire values decoded
qm31s_from_wire(values) ==
    collect([i \in 1..Len(values) |-> qm31_from_wire(values[i])])

\* a list of base-field wire words decoded
m31s_from_wire(values) ==
    collect([i \in 1..Len(values) |-> checked_m31(values[i])])

\* wire_to_fri_layer(layer)
wire_to_fri_layer(layer) == qm31s_from_wire(layer.fri_witness)

\* wire_to_proof(wire): every part decoded, Err if one of them is
wire_to_proof(wire) ==
    collect(<<qm31s_from_wire(wire.sampled_values),
              m31s_from_wire(wire.queried_values),
              wire_to_fri_layer(wire.first_layer),
              collect([i \in 1..Len(wire.inner_layers) |->
                          wire_to_fri_layer(wire.inner_layers[i])]),
              qm31s_from_wire(wire.last_layer_poly)>>)

\* state_machine_statement_from_wire(wire)
state_machine_statement_from_wire(wire) ==
    collect(<<m31s_from_wire(wire.public_input),
              qm31s_from_wire(wire.claimed_sums)>>)

\* the statements of the other examples hold log-sizes and counts only
plain_statement_from_wire(wire) == [ok |-> TRUE, value |-> wire]

\* what run_verify leaves: its result, whether an example verifier ran, and
\* what was decoded by then
VerifyOut(result, verifier_invoked, decoded) ==
    [result |-> result, verifier_invoked |-> verifier_invoked,
     decoded |-> decoded]

NoVerify == VerifyOut("none", FALSE, <<>>)

\* the match on artifact.example: the statement decoded, then the example's
\* verifier on the decoded proof; accepted is that verifier's answer
verify_example(example, statement_wire, proof, accepted) ==
    IF example = "state_machine"
    THEN IF state_machine_statement_from_wire(statement_wire).ok
         THEN VerifyOut(IF accepted THEN "ok" ELSE "error", TRUE, proof)
         ELSE VerifyOut("error", FALSE, <<>>)
    ELSE IF example = "xor"
    THEN VerifyOut(IF accepted THEN "ok" ELSE "error", TRUE, proof)
    ELSE VerifyOut("error", FALSE, <<>>)

\* run_verify after the artifact is read
decode_and_verify(a, proof, accepted) ==
    IF ~proof.ok THEN VerifyOut("error", FALSE, <<>>)
    ELSE verify_example(a.example, a.statement, proof.value, accepted)

\* run_verify(cli)
run_verify(a, accepted) ==
    IF ~a.well_formed THEN VerifyOut("error", FALSE, <<>>)
    ELSE decode_and_verify(a, wire_to_proof(a.proof_wire), accepted)

\* the parts of an artifact that hold field values
ProofPlaces ==
    {"sampled_values", "queried_values", "first_layer", "inner_layers",
     "last_layer_poly"}

StatementPlaces == {"public_input", "claimed_sums"}

\* a secure-field wire value: canonical, or with the word w at coordinate k
Qm31Wire(bad, k, w) == [i \in 1..4 |-> IF bad /\ i = k THEN w ELSE i - 1]

\* the proof part of an artifact whose places in B hold the word w
ProofWire(B, k, w) ==
    [sampled_values |-> <<Qm31Wire(FALSE, k, w),
                          Qm31Wire("sampled_values" \in B, k, w)>>,
     queried_values |-> <<P - 1, IF "queried_values" \in B THEN w ELSE 0>>,
     first_layer |-> [fri_witness |-> <<Qm31Wire("first_layer" \in B, k, w)>>],
     inner_layers |-> <<[fri_witness |-> <<>>],
                        [fri_witness |->
                            <<Qm31Wire("inner_layers" \in B, k, w)>>]>>,
     last_layer_poly |-> <<Qm31Wire("last_layer_poly" \in B, k, w)>>]

\* the statement of a state_machine artifact
StatementWire(B, k, w) ==
    [public_input |-> Qm31Wire("public_input" \in B, k, w),
     claimed_sums |-> <<Qm31Wire("claimed_sums" \in B, k, w),
                        Qm31Wire(FALSE, k, w)>>]

\* the statement of an artifact of another example: no field value
PlainStatementWire == [public_input |-> <<>>, claimed_sums |-> <<>>]

NoArtifact ==
    [well_formed |-> FALSE, example |-> "none",
     proof_wire |-> <<>>, statement |-> <<>>]

\* artifacts: well-formed or not, of an example with field values in its
\* statement, of one without, or of an unknown one; any set of places
\* holding a non-canonical word at some coordinate
Artifacts ==
    {[well_formed |-> wf, example |-> e,
      proof_wire |-> ProofWire(B, k, w),
      statement |-> IF e = "state_machine"
                    THEN StatementWire(B, k, w) ELSE PlainStatementWire] :
        wf \in BOOLEAN, e \in {"state_machine", "xor", "other"},
        B \in SUBSET (ProofPlaces \cup StatementPlaces),
        k \in 1..4, w \in {P, MaxWord}}

\* ------------------------------------------------------------ the inputs
\* 1 + (next_u64 % layer_size.min(3)) queries per layer of a grouped case
GroupedMaxQueries == 3
\* 1 + (next_u64 % domain_size.min(4)) queries of a lifted case
LiftedMaxQueries == 4

\* column j (1-based) of log-size L: sample_m31 per element; the sampled
\* values repeat with period 3 within a column and differ between columns
SampleColumn(j, L) == [i \in 1..Pow2(L) |-> 10 * j + ((i - 1) % 3)]

\* a secure-field column of log-size L: sample_qm31 per element
SampleSecureColumn(L) ==
    [i \in 1..Pow2(L) |->
        <<(i - 1) % 3, 10 + ((i - 1) % 3), 20 + (i - 1), 30 + (i - 1)>>]

\* non-decreasing sequences of length len over lo..hi
RECURSIVE NonDecreasing(_, _, _)
NonDecreasing(lo, hi, len) ==
    IF len = 0 THEN {<<>>}
    ELSE UNION {{<<v>> \o t : t \in NonDecreasing(v, hi, len - 1)} : v \in lo..hi}

\* strictly increasing sequences of length len over lo..hi
RECURSIVE Increasing(_, _, _)
Increasing(lo, hi, len) ==
    IF len = 0 THEN {<<>>}
    ELSE UNION {{<<v>> \o t : t \in Increasing(v + 1, hi, len - 1)} : v \in lo..hi}

\* query lists as the generators draw them: distinct, sorted, at least one
QueryLists(size, max_queries) ==
    UNION {Increasing(0, size - 1, len) : len \in 1..Min(size, max_queries)}

\* query lists handed to the FRI decommitment: sorted, any usize values
FriQueryLists ==
    UNION {NonDecreasing(0, UsizeModulus - 1, len) : len \in 0..MaxFriQueries}

\* queries_per_log_size of a grouped case: a query list for every layer
\* that has a column, nothing for the others (layers 0..L)
RECURSIVE QueryMaps(_, _)
QueryMaps(sizes, L) ==
    LET here == IF \E j \in 1..Len(sizes) : sizes[j] = L
                THEN QueryLists(Pow2(L), GroupedMaxQueries)
                ELSE {<<>>}
    IN  IF L = 0 THEN {[x \in {0} |-> q] : q \in here}
        ELSE {[x \in 0..L |-> IF x = L THEN q ELSE m[x]] :
                 m \in QueryMaps(sizes, L - 1), q \in here}

IsStrictlyIncreasing(s) == \A i \in 1..(Len(s) - 1) : s[i] < s[i + 1]

\* ---------------------------------------------------------------- state
VARIABLES
    variant,               \* which generator runs: "grouped", "lifted", "fri"
    columns,               \* the columns (fri: the one secure-field column)
    column_log_sizes,      \* their log-sizes, in input order
    queries_per_log_size,  \* grouped: layer -> sorted query list
    query_positions,       \* lifted, fri: the query positions
    fold_step,             \* fri: the fold step
    pc,                    \* "input", "base", "cases", "done"
    base,                  \* the base case: tree, root, decommitment
    vcases,                \* the verifier cases pushed from the base case
    fri_out,               \* result of compute_fri_decommit_outputs
    fri_layer_out,         \* result of compute_fri_layer_decommit_outputs
    artifact,              \* interop: the artifact handed to run_verify
    verify_out,            \* interop: what run_verify did with it
    walk                   \* walk: one per-layer merge loop, step by step

vars == <<variant, columns, column_log_sizes, queries_per_log_size,
          query_positions, fold_step, pc, base, vcases, fri_out, fri_layer_out,
          artifact, verify_out, walk>>

NoBase == [root |-> <<>>, layers |-> <<>>, queried_values |-> <<>>,
           hash_witness |-> <<>>, column_witness |-> <<>>, visited |-> <<>>,
           expected |-> "none"]

NoFri == FriEmpty("none")

\* no merge loop is being stepped
NoWalk ==
    [has_prev |-> FALSE, known |-> <<>>, queries |-> <<>>, iterations |-> 0,
     st |-> <<>>]

NoFriLayer == FriLayerEmpty("none")

\* the inputs of build_vcs_base_case.  The grouped tree buckets the columns
\* by log-size and keeps the input order only within a bucket, so the
\* log-sizes are drawn in non-decreasing order.
InitGrouped ==
    /\ variant = "grouped"
    /\ \E n \in 1..MaxGroupedColumns : column_log_sizes \in NonDecreasing(1, MaxLogSize, n)
    /\ columns = [j \in 1..Len(column_log_sizes) |->
                     SampleColumn(j, column_log_sizes[j])]
    /\ queries_per_log_size \in QueryMaps(column_log_sizes, SeqMax(column_log_sizes))
    /\ query_positions = <<>>
    /\ fold_step = 0

\* the inputs of build_vcs_lifted_base_case
InitLifted ==
    /\ variant = "lifted"
    /\ \E n \in 1..MaxColumns : column_log_sizes \in [1..n -> 1..MaxLogSize]
    /\ columns = [j \in 1..Len(column_log_sizes) |->
                     SampleColumn(j, column_log_sizes[j])]
    /\ query_positions \in
         QueryLists(Pow2(SeqMax(column_log_sizes)), LiftedMaxQueries)
    /\ queries_per_log_size = <<>>
    /\ fold_step = 0

\* the inputs of compute_fri_decommit_outputs: any column, any fold step
\* up to usize::BITS and beyond, any sorted query list
InitFri ==
    /\ variant = "fri"
    /\ \E L \in 0..MaxLogSize : column_log_sizes = <<L>>
    /\ columns = SampleSecureColumn(column_log_sizes[1])
    /\ fold_step \in 0..(UsizeBits + 1)
    /\ query_positions \in FriQueryLists
    /\ queries_per_log_size = <<>>

\* all lists over 0..(size - 1) of length at most len: unsorted lists and
\* lists with duplicates included
AnyLists(size, len) == UNION {[1..n -> 0..(size - 1)] : n \in 0..len}

\* the tree the stepped merge loop works on: a column of two values at the
\* layer of the loop, above a layer of four hashes
WalkColumns == <<SampleColumn(1, 1), SampleColumn(2, 2)>>

WalkSizes == <<1, 2>>

\* previous_layer_hashes of the loop
WalkPrevHashes == grouped_layer_hashes(WalkColumns, WalkSizes)[2]

\* layer_columns of the loop
WalkLayerColumns == columns_by_layer(WalkColumns, WalkSizes, 1)

\* the loop's state before its first iteration: the two peekable iterators
\* and the empty output vectors
WalkStart(has_prev, known, queries) ==
    [has_prev |-> has_prev, known |-> known, queries |-> queries,
     iterations |-> 0,
     st |-> [prev_layer_queries |-> known,
             layer_column_queries |-> queries,
             queried_values |-> <<>>,
             hash_witness |-> <<>>,
             column_witness |-> <<>>,
             layer_total_queries |-> <<>>]]

\* the inputs of one per-layer merge loop: any two finite lists of indices
\* of the layer; at the deepest layer (no previous_layer_hashes) the list
\* of known children is the empty last_layer_queries
InitWalk ==
    /\ variant = "walk"
    /\ \E has_prev \in BOOLEAN :
       \E known \in AnyLists(Len(WalkPrevHashes), MaxWalkLen) :
       \E queries \in AnyLists(Len(WalkLayerColumns[1]), MaxWalkLen) :
           /\ has_prev \/ known = <<>>
           /\ walk = WalkStart(has_prev, known, queries)
    /\ columns = WalkColumns
    /\ column_log_sizes = WalkSizes
    /\ queries_per_log_size = <<>>
    /\ query_positions = <<>>
    /\ fold_step = 0
    /\ artifact = NoArtifact

\* the inputs of a verification of tampered streams: the tree of the
\* stepped loop with any query lists
InitTampered ==
    /\ variant = "tampered"
    /\ columns = WalkColumns
    /\ column_log_sizes = WalkSizes
    /\ queries_per_log_size \in QueryMaps(WalkSizes, SeqMax(WalkSizes))
    /\ query_positions = <<>>
    /\ fold_step = 0

\* the inputs of run_verify: an artifact file
InitInterop ==
    /\ variant = "interop"
    /\ artifact \in Artifacts
    /\ columns = <<>>
    /\ column_log_sizes = <<>>
    /\ queries_per_log_size = <<>>
    /\ query_positions = <<>>
    /\ fold_step = 0

Init ==
    /\ \/ (InitGrouped \/ InitLifted \/ InitFri \/ InitTampered)
            /\ artifact = NoArtifact /\ walk = NoWalk
       \/ InitInterop /\ walk = NoWalk
       \/ InitWalk
    /\ pc = "input"
    /\ base = NoBase
    /\ vcases = {}
    /\ fri_out = NoFri
    /\ fri_layer_out = NoFriLayer
    /\ verify_out = NoVerify

\* -------------------------------------------------------------- actions
\* the base case with the verifier's verdict on it
grouped_base(b, sizes, queries) ==
    [root |-> b.root, layers |-> b.layers,
     queried_values |-> b.queried_values,
     hash_witness |-> b.hash_witness,
     column_witness |-> b.column_witness,
     visited |-> b.visited,
     expected |-> run_vcs_verifier(b.root, sizes, queries, b.queried_values,
                                   b.hash_witness, b.column_witness)]

\* build_vcs_base_case: tree, decommitment, and the verifier's verdict on it
BuildGroupedBase ==
    /\ pc = "input"
    /\ variant = "grouped"
    /\ base' = grouped_base(
                   grouped_prove(columns, column_log_sizes, queries_per_log_size),
                   column_log_sizes, queries_per_log_size)
    /\ pc' = "base"
    /\ UNCHANGED <<variant, columns, column_log_sizes, queries_per_log_size,
                   query_positions, fold_step, vcases, fri_out, fri_layer_out>>
    /\ UNCHANGED <<artifact, verify_out, walk>>

lifted_base(b, sizes, positions) ==
    [root |-> b.root, layers |-> b.layers,
     queried_values |-> b.queried_values,
     hash_witness |-> b.hash_witness,
     column_witness |-> b.column_witness,
     visited |-> b.visited,
     expected |-> run_vcs_lifted_verifier(b.root, sizes, positions,
                                          b.queried_values, b.hash_witness)]

\* build_vcs_lifted_base_case
BuildLiftedBase ==
    /\ pc = "input"
    /\ variant = "lifted"
    /\ base' = lifted_base(
                   lifted_prove(columns, column_log_sizes, query_positions),
                   column_log_sizes, query_positions)
    /\ pc' = "base"
    /\ UNCHANGED <<variant, columns, column_log_sizes, queries_per_log_size,
                   query_positions, fold_step, vcases, fri_out, fri_layer_out>>
    /\ UNCHANGED <<artifact, verify_out, walk>>

\* the push_case closure of build_vcs_verifier_cases and of
\* build_vcs_lifted_verifier_cases: the case with the verifier's verdict
push_case(case, case_root, case_queried_values, case_hash_witness, case_column_witness) ==
    [case |-> case, root |-> case_root,
     queried_values |-> case_queried_values,
     hash_witness |-> case_hash_witness,
     column_witness |-> case_column_witness,
     expected |->
         IF variant = "grouped"
         THEN run_vcs_verifier(case_root, column_log_sizes,
                  queries_per_log_size, case_queried_values,
                  case_hash_witness, case_column_witness)
         ELSE run_vcs_lifted_verifier(case_root, column_log_sizes,
                  query_positions, case_queried_values, case_hash_witness)]

\* sample_hash(state): some hash, possibly one of the tree
SampleHashes ==
    {base.root, FlipBit(base.root),
     At(base.layers[Cardinality(DOMAIN base.layers) - 1], 0)}

\* sample_m31(state, false): some field element
SampleValues == {0, 7}

\* s without its i-th element
RemoveAt(s, i) == SubSeq(s, 1, i - 1) \o SubSeq(s, i + 1, Len(s))

\* a hash different from h
OtherHash(h) == FlipBit(h)

\* a field element different from v
OtherValue(v) == v + 1

ValidCases ==
    {push_case("valid", base.root, base.queried_values, base.hash_witness,
               base.column_witness)}

\* the root left as it is
bad_root_unchanged(root) == root

\* bad_root.0[0] ^= 1
bad_root(root) == FlipBit(root)

\* "root_mismatch": the root with one bit flipped, or any other hash
RootMismatchCases ==
    {push_case("root_mismatch", r, base.queried_values, base.hash_witness,
               base.column_witness) :
        r \in {bad_root(base.root)} \cup (SampleHashes \ {base.root})}

\* the witness left as it is
short_witness_unchanged(hash_witness) == hash_witness

\* short.hash_witness.pop()
short_witness(hash_witness) == Pop(hash_witness)

\* every way of taking hashes away that the cases try: one hash removed
\* anywhere, or all of them
ShortenedWitnesses(hash_witness) ==
    {RemoveAt(hash_witness, i) : i \in 1..Len(hash_witness)} \cup {<<>>}

\* the decommitments of the "witness_too_short" case: the last hash popped
\* (or hashes taken away otherwise); with no hash in the witness, the last
\* column-witness value popped instead
ShortDecommitments ==
    IF base.hash_witness # <<>>
    THEN {<<hw, base.column_witness>> :
             hw \in {short_witness(base.hash_witness)}
                    \cup ShortenedWitnesses(base.hash_witness)}
    ELSE IF variant = "grouped" /\ base.column_witness # <<>>
    THEN {<<base.hash_witness, Pop(base.column_witness)>>}
    ELSE {}

WitnessTooShortCases ==
    {push_case("witness_too_short", base.root, base.queried_values, d[1], d[2]) :
        d \in ShortDecommitments}

\* the witness without the pushed hash
long_witness_unchanged(hash_witness, h) == hash_witness

\* long.hash_witness.push(sample_hash(state))
long_witness(hash_witness, h) == Append(hash_witness, h)

\* "witness_too_long": one sampled hash more, at the end or at the front
WitnessTooLongCases ==
    {push_case("witness_too_long", base.root, base.queried_values, hw,
               base.column_witness) :
        hw \in {long_witness(base.hash_witness, h) : h \in SampleHashes}
               \cup {<<base.root>> \o base.hash_witness}}

\* the values left as they are
short_values_unchanged(queried_values) == queried_values

\* short_values.pop()
short_values(queried_values) == Pop(queried_values)

\* "queried_values_too_short" (grouped)
QueriedValuesTooShortCases ==
    IF base.queried_values = <<>> THEN {}
    ELSE {push_case("queried_values_too_short", base.root,
                    short_values(base.queried_values), base.hash_witness,
                    base.column_witness)}

\* the values without the pushed value
long_values_unchanged(queried_values, v) == queried_values

\* long_values.push(sample_m31(state, false))
long_values(queried_values, v) == Append(queried_values, v)

\* "queried_values_too_long" (grouped)
QueriedValuesTooLongCases ==
    {push_case("queried_values_too_long", base.root,
               long_values(base.queried_values, v), base.hash_witness,
               base.column_witness) : v \in SampleValues}

\* the values left as they are
bad_values_same(queried_values, c, k, v) == queried_values

\* bad_values[c][k] = v (lifted: per column, per query)
bad_values(queried_values, c, k, v) == [queried_values EXCEPT ![c][k] = v]

\* "queried_values_mismatch" (lifted): one queried value replaced by
\* another value; the generator replaces bad_values[0][0]
LiftedQueriedValuesMismatchCases ==
    UNION {{push_case("queried_values_mismatch", base.root,
                      bad_values(base.queried_values, c, k,
                                 OtherValue(base.queried_values[c][k])),
                      base.hash_witness, base.column_witness) :
               k \in 1..Len(base.queried_values[c])} :
           c \in 1..Len(base.queried_values)}

\* the same corruption of the flat queried_values of a grouped case
GroupedQueriedValuesMismatchCases ==
    {push_case("queried_values_mismatch", base.root,
               [base.queried_values EXCEPT ![k] = OtherValue(@)],
               base.hash_witness, base.column_witness) :
        k \in 1..Len(base.queried_values)}

\* one hash of the hash witness replaced by another hash
HashWitnessMismatchCases ==
    {push_case("hash_witness_mismatch", base.root, base.queried_values,
               [base.hash_witness EXCEPT ![i] = OtherHash(@)],
               base.column_witness) :
        i \in 1..Len(base.hash_witness)}

\* one value of the column witness replaced by another value (grouped)
ColumnWitnessMismatchCases ==
    {push_case("column_witness_mismatch", base.root, base.queried_values,
               base.hash_witness,
               [base.column_witness EXCEPT ![i] = OtherValue(@)]) :
        i \in 1..Len(base.column_witness)}

\* the ways build_vcs_verifier_cases changes the length of a stream
Tamperings == {"same", "short", "long"}

\* a stream as it is, with its last entry popped, or with an entry pushed
tampered_stream(stream, how, pushed) ==
    IF how = "short" THEN Pop(stream)
    ELSE IF how = "long" THEN Append(stream, pushed)
    ELSE stream

\* push_case on a base case whose three streams are each left, popped or
\* pushed to
tampered_case(b, sizes, queries, hw_how, cw_how, qv_how) ==
    [case |-> <<hw_how, cw_how, qv_how>>,
     root |-> b.root,
     queried_values |-> tampered_stream(b.queried_values, qv_how, 0),
     hash_witness |-> tampered_stream(b.hash_witness, hw_how, FlipBit(b.root)),
     column_witness |-> tampered_stream(b.column_witness, cw_how, 0),
     expected |->
         run_vcs_verifier(b.root, sizes, queries,
             tampered_stream(b.queried_values, qv_how, 0),
             tampered_stream(b.hash_witness, hw_how, FlipBit(b.root)),
             tampered_stream(b.column_witness, cw_how, 0))]

\* the verifier run on a decommitment in which any of the three streams
\* was popped or pushed to, several at once included
VerifyTampered ==
    /\ pc = "input"
    /\ variant = "tampered"
    /\ base' = grouped_base(
                   grouped_prove(columns, column_log_sizes, queries_per_log_size),
                   column_log_sizes, queries_per_log_size)
    /\ \E hw_how \in Tamperings, cw_how \in Tamperings, qv_how \in Tamperings :
           /\ hw_how = "short" => base'.hash_witness # <<>>
           /\ cw_how = "short" => base'.column_witness # <<>>
           /\ qv_how = "short" => base'.queried_values # <<>>
           /\ vcases' = {tampered_case(base', column_log_sizes,
                                       queries_per_log_size,
                                       hw_how, cw_how, qv_how)}
    /\ pc' = "done"
    /\ UNCHANGED <<variant, columns, column_log_sizes, queries_per_log_size,
                   query_positions, fold_step, fri_out, fri_layer_out>>
    /\ UNCHANGED <<artifact, verify_out, walk>>

\* build_vcs_verifier_cases: the cases pushed from a base case that
\* verifies, and the same corruptions at every other place
BuildVerifierCases ==
    /\ pc = "base"
    /\ variant = "grouped"
    /\ base.expected = "ok"
    /\ vcases' = ValidCases \cup RootMismatchCases \cup WitnessTooShortCases
                 \cup WitnessTooLongCases \cup QueriedValuesTooShortCases
                 \cup QueriedValuesTooLongCases
                 \cup GroupedQueriedValuesMismatchCases
                 \cup HashWitnessMismatchCases \cup ColumnWitnessMismatchCases
    /\ pc' = "cases"
    /\ UNCHANGED <<variant, columns, column_log_sizes, queries_per_log_size,
                   query_positions, fold_step, base, fri_out, fri_layer_out>>
    /\ UNCHANGED <<artifact, verify_out, walk>>

\* build_vcs_lifted_verifier_cases
BuildLiftedVerifierCases ==
    /\ pc = "base"
    /\ variant = "lifted"
    /\ base.expected = "ok"
    /\ vcases' = ValidCases \cup RootMismatchCases \cup WitnessTooShortCases
                 \cup WitnessTooLongCases \cup LiftedQueriedValuesMismatchCases
                 \cup HashWitnessMismatchCases
    /\ pc' = "cases"
    /\ UNCHANGED <<variant, columns, column_log_sizes, queries_per_log_size,
                   query_positions, fold_step, base, fri_out, fri_layer_out>>
    /\ UNCHANGED <<artifact, verify_out, walk>>

\* push_case of build_fri_decommit_cases: compute_fri_decommit_outputs on
\* the case's column, queries and fold step, under either build profile
FriDecommit ==
    /\ pc = "input"
    /\ variant = "fri"
    /\ \E overflow_checks \in BOOLEAN :
         fri_out' = compute_fri_decommit_outputs(columns, query_positions,
                                                 fold_step, overflow_checks)
    /\ pc' = "done"
    /\ UNCHANGED <<variant, columns, column_log_sizes, queries_per_log_size,
                   query_positions, fold_step, base, vcases, fri_layer_out>>
    /\ UNCHANGED <<artifact, verify_out, walk>>

\* push_case of build_fri_layer_decommit_cases
FriLayerDecommit ==
    /\ pc = "input"
    /\ variant = "fri"
    /\ \E overflow_checks \in BOOLEAN :
         fri_layer_out' = compute_fri_layer_decommit_outputs(columns,
                              query_positions, fold_step, overflow_checks)
    /\ pc' = "done"
    /\ UNCHANGED <<variant, columns, column_log_sizes, queries_per_log_size,
                   query_positions, fold_step, base, vcases, fri_out>>
    /\ UNCHANGED <<artifact, verify_out, walk>>

\* run_verify on the artifact, with either answer of the example verifier
RunVerify ==
    /\ pc = "input"
    /\ variant = "interop"
    /\ \E accepted \in BOOLEAN : verify_out' = run_verify(artifact, accepted)
    /\ pc' = "done"
    /\ UNCHANGED <<variant, columns, column_log_sizes, queries_per_log_size,
                   query_positions, fold_step, base, vcases, fri_out,
                   fri_layer_out, artifact, walk>>

\* one iteration of the while-let loop of a layer (main.rs 1725-1750): the
\* planner returns a node, the loop body processes it
MergeWalkStep ==
    /\ variant = "walk"
    /\ next_decommitment_node_for_prover(
           walk.st.prev_layer_queries, walk.st.layer_column_queries) # None
    /\ walk' = [walk EXCEPT
                   !.st = grouped_decommit_step(
                              walk.has_prev, WalkPrevHashes, WalkLayerColumns, @,
                              next_decommitment_node_for_prover(
                                  walk.st.prev_layer_queries,
                                  walk.st.layer_column_queries)),
                   !.iterations = @ + 1]
    /\ UNCHANGED <<variant, columns, column_log_sizes, queries_per_log_size,
                   query_positions, fold_step, pc, base, vcases, fri_out,
                   fri_layer_out, artifact, verify_out>>

Next ==
    \/ MergeWalkStep
    \/ VerifyTampered
    \/ RunVerify
    \/ BuildGroupedBase
    \/ BuildLiftedBase
    \/ BuildVerifierCases
    \/ BuildLiftedVerifierCases
    \/ FriDecommit
    \/ FriLayerDecommit

Spec == Init /\ [][Next]_vars

\* --------------------------------------------------------------- claims
\* C1: a grouped-Merkle base case (columns grouped by log-size, per-log-size
\* sorted queries) whose decommitment (queried_values, hash_witness,
\* column_witness) was built by the grouped builder verifies against the
\* builder's root: the verdict is "ok".
C1_GroupedRoundTrip ==
    (variant = "grouped" /\ pc # "input") => base.expected = "ok"

\* a grouped base case of two layers that carries hashes and column values
\* in its witness and reveals values
C1_Witness ==
    /\ variant = "grouped"
    /\ pc = "base"
    /\ base.expected = "ok"
    /\ Len(column_log_sizes) = 2
    /\ column_log_sizes[1] < column_log_sizes[2]
    /\ base.hash_witness # <<>>
    /\ base.column_witness # <<>>
    /\ base.queried_values # <<>>

\* C2: a lifted-Merkle base case (columns of any log-sizes in any input
\* order, query positions on the largest log-size) whose decommitment was
\* built by the lifted builder verifies against the builder's root.
C2_LiftedRoundTrip ==
    (variant = "lifted" /\ pc # "input") => base.expected = "ok"

\* a lifted base case whose columns are not in log-size order, with two
\* queries and a non-empty hash witness
C2_Witness ==
    /\ variant = "lifted"
    /\ pc = "base"
    /\ base.expected = "ok"
    /\ Len(column_log_sizes) = 2
    /\ column_log_sizes[1] > column_log_sizes[2]
    /\ Len(query_positions) >= 2
    /\ base.hash_witness # <<>>

\* C3: both verifiers answer WitnessTooShort to a decommitment whose
\* witness is shorter than the verifier's walk needs, and WitnessTooLong to
\* one that is longer, everything else being valid; the value of the
\* appended hash does not matter.
C3_WitnessLength ==
    pc = "cases" =>
        \A c \in vcases :
            /\ c.case = "witness_too_short" =>
                   /\ c.expected = "WitnessTooShort"
                   /\ Len(c.hash_witness) + Len(c.column_witness)
                          < Len(base.hash_witness) + Len(base.column_witness)
            /\ c.case = "witness_too_long" =>
                   /\ c.expected = "WitnessTooLong"
                   /\ Len(c.hash_witness) > Len(base.hash_witness)

\* a grouped case set with a popped witness and with witnesses lengthened
\* by two different hashes
C3_Witness ==
    /\ pc = "cases"
    /\ variant = "grouped"
    /\ \E c \in vcases :
          /\ c.case = "witness_too_short"
          /\ c.hash_witness = Pop(base.hash_witness)
          /\ c.expected = "WitnessTooShort"
    /\ \E c, d \in vcases :
          /\ c.case = "witness_too_long"
          /\ d.case = "witness_too_long"
          /\ c.hash_witness # d.hash_witness
          /\ Len(c.hash_witness) = Len(d.hash_witness)
          /\ c.expected = "WitnessTooLong"
          /\ d.expected = "WitnessTooLong"

\* C4: a decommitment of correct lengths in which the root, one queried
\* value, one witness hash or one column-witness value was replaced by a
\* different value is answered RootMismatch by both verifiers.
C4_ContentTamper ==
    pc = "cases" =>
        \A c \in vcases :
            c.case \in {"root_mismatch", "queried_values_mismatch",
                        "hash_witness_mismatch", "column_witness_mismatch"}
            => /\ c.expected = "RootMismatch"
               /\ <<c.root, c.queried_values, c.hash_witness, c.column_witness>>
                    # <<base.root, base.queried_values, base.hash_witness,
                        base.column_witness>>
               /\ Len(c.hash_witness) = Len(base.hash_witness)
               /\ Len(c.column_witness) = Len(base.column_witness)
               /\ Len(c.queried_values) = Len(base.queried_values)

\* a lifted case set with the root flipped, a queried value replaced and a
\* witness hash replaced
C4_Witness ==
    /\ pc = "cases"
    /\ variant = "lifted"
    /\ \E c \in vcases :
          c.case = "root_mismatch" /\ c.root = FlipBit(base.root)
             /\ c.expected = "RootMismatch"
    /\ \E c \in vcases :
          c.case = "queried_values_mismatch" /\ c.expected = "RootMismatch"
    /\ \E c \in vcases :
          c.case = "hash_witness_mismatch" /\ c.expected = "RootMismatch"

\* C5: the grouped verifier answers TooFewQueriedValues when the flat
\* queried_values is one value short and TooManyQueriedValues when it has
\* one value more, everything else being valid; so with one column of
\* log-size 1 queried at 0 and one of log-size 2 queried at 2, leaving out
\* the log-size-1 value gives TooFewQueriedValues.
C5_QueriedValuesLength ==
    (pc = "cases" /\ variant = "grouped") =>
        \A c \in vcases :
            /\ c.case = "queried_values_too_short" =>
                   /\ c.expected = "TooFewQueriedValues"
                   /\ Len(c.queried_values) = Len(base.queried_values) - 1
            /\ c.case = "queried_values_too_long" =>
                   /\ c.expected = "TooManyQueriedValues"
                   /\ Len(c.queried_values) = Len(base.queried_values) + 1

\* the scenario of the claim: log-sizes 1 and 2, queries {0} and {2}; the
\* popped value is the one of the log-size-1 column
C5_Witness ==
    /\ pc = "cases"
    /\ variant = "grouped"
    /\ column_log_sizes = <<1, 2>>
    /\ queries_per_log_size[1] = <<0>>
    /\ queries_per_log_size[2] = <<2>>
    /\ base.queried_values = <<At(columns[2], 2), At(columns[1], 0)>>
    /\ \E c \in vcases :
          /\ c.case = "queried_values_too_short"
          /\ c.queried_values = <<At(columns[2], 2)>>
          /\ c.expected = "TooFewQueriedValues"
    /\ \E c \in vcases :
          /\ c.case = "queried_values_too_long"
          /\ c.expected = "TooManyQueriedValues"

\* the leaf hash of a lone column's entry at position p
LeafOf(p) == finalize(update_leaf(default_with_initial_state, At(columns[1], p)))

\* the lifted scenario: one column [a, b, c, d] of log-size 2, position 1
\* among the queries, the base case built
LoneColumnQueried ==
    /\ variant = "lifted"
    /\ pc # "input"
    /\ column_log_sizes = <<2>>
    /\ \E k \in 1..Len(query_positions) : query_positions[k] = 1

\* what the scenario's decommitment carries when only position 1 is
\* queried, and when its hash witness can be empty
LoneColumnDecommitment ==
    /\ query_positions = <<1>> =>
           /\ base.queried_values = <<<<At(columns[1], 1)>>>>
           /\ \E i \in 1..Len(base.hash_witness) :
                  base.hash_witness[i] = LeafOf(0)
    /\ base.hash_witness = <<>> =>
           \E k \in 1..Len(query_positions) : query_positions[k] = 0

\* C6 (as amended): for the lone column [a, b, c, d] of log-size 2,
\* querying only position 1 returns queried_values = [b] and the hash
\* witness [H(leaf(0)), H(H(leaf(2)), H(leaf(3)))]; the hash witness is
\* empty only if position 0 is queried too; the root is recomputed from b
\* and both witness hashes, H(leaf(0)) and the hash of the other half.
C6_LoneColumn ==
    LoneColumnQueried =>
        /\ LoneColumnDecommitment
        /\ query_positions = <<1>> =>
               /\ base.hash_witness =
                      <<LeafOf(0), hash_children(LeafOf(2), LeafOf(3))>>
               /\ hash_children(
                      hash_children(base.hash_witness[1], LeafOf(1)),
                      base.hash_witness[2]) = base.root

\* the scenario with position 1 as the only query
C6_Witness ==
    /\ LoneColumnQueried
    /\ pc = "base"
    /\ query_positions = <<1>>
    /\ Len(base.hash_witness) = 2
    /\ base.expected = "ok"

\* C6 as stated: the root is recomputed from b and the single witness
\* H(leaf(0)).
C6_Original ==
    LoneColumnQueried =>
        /\ LoneColumnDecommitment
        /\ query_positions = <<1>> =>
               hash_children(LeafOf(0), LeafOf(1)) = base.root

\* the indices of layer L that are an ancestor-or-self of some query
AncestorsAt(positions, max_log_size, L) ==
    {Shr(positions[k], max_log_size - L) : k \in 1..Len(positions)}

\* the number of (layer, index) pairs over layers L down to 1 whose index
\* is an ancestor-or-self of a query and whose sibling is not
RECURSIVE UnpairedCount(_, _, _)
UnpairedCount(positions, max_log_size, L) ==
    IF L = 0 THEN 0
    ELSE Cardinality({i \in AncestorsAt(positions, max_log_size, L) :
                         Xor1(i) \notin AncestorsAt(positions, max_log_size, L)})
         + UnpairedCount(positions, max_log_size, L - 1)

\* C7: the lifted hash witness has exactly one hash per (layer, index),
\* over layers maxL down to 1, where index is an ancestor-or-self of a
\* query and index^1 is not; a single query gives maxL hashes, all 2^maxL
\* positions queried give none.
C7_LiftedWitnessMinimal ==
    (variant = "lifted" /\ pc # "input") =>
        /\ Len(base.hash_witness) =
               UnpairedCount(query_positions, SeqMax(column_log_sizes),
                             SeqMax(column_log_sizes))
        /\ Len(query_positions) = 1 =>
               Len(base.hash_witness) = SeqMax(column_log_sizes)
        /\ Len(query_positions) = Pow2(SeqMax(column_log_sizes)) =>
               base.hash_witness = <<>>

\* two queries under different parents of a tree of depth 2: one hash each
\* at the leaf layer, none above
C7_Witness ==
    /\ variant = "lifted"
    /\ pc = "base"
    /\ SeqMax(column_log_sizes) = 2
    /\ query_positions = <<0, 2>>
    /\ Len(base.hash_witness) = 2

\* C8: with fold_step >= usize::BITS both FRI decommitment functions answer
\* FoldStepTooLarge, whatever the column and the query list (empty or out
\* of range included).
C8_FoldStepTooLarge ==
    (variant = "fri" /\ pc = "done" /\ fold_step >= UsizeBits) =>
        /\ fri_out.status \in {"none", FoldStepTooLarge}
        /\ fri_layer_out.status \in {"none", FoldStepTooLarge}

\* fold_step equal to the width, with a query beyond the column
C8_Witness ==
    /\ variant = "fri"
    /\ pc = "done"
    /\ fold_step = UsizeBits
    /\ query_positions # <<>>
    /\ query_positions[1] >= Len(columns)
    /\ fri_out.status = FoldStepTooLarge

\* some position of some visited subset range [key << F, (key << F) + 2^F)
\* lies beyond the column
SomeSubsetPositionOutOfRange ==
    \E k \in 1..Len(query_positions) :
        (query_positions[k] \div Pow2(fold_step)) * Pow2(fold_step)
            + Pow2(fold_step) - 1 >= Len(columns)

\* C9: for fold_step below usize::BITS and a sorted query list,
\* compute_fri_decommit_outputs answers QueryOutOfRange if and only if some
\* position of some visited subset range is >= the column length.
C9_QueryOutOfRange ==
    (variant = "fri" /\ pc = "done" /\ fold_step < UsizeBits
        /\ fri_out.status # "none") =>
        (fri_out.status = QueryOutOfRange <=> SomeSubsetPositionOutOfRange)

\* the evaluations of the column at the given positions
EvalsAt(column, positions) ==
    [k \in 1..Len(positions) |-> At(column, positions[k])]

\* C10: with fold_step 0 and a strictly increasing in-range query list the
\* FRI decommitment succeeds with decommitment_positions equal to the
\* query list, no witness evaluation, and a value map of exactly the
\* queried positions and their evaluations.
C10_FoldStepZero ==
    (variant = "fri" /\ pc = "done" /\ fold_step = 0
        /\ IsStrictlyIncreasing(query_positions)
        /\ \A k \in 1..Len(query_positions) :
               query_positions[k] < Len(columns)) =>
        /\ fri_out.status # "none" =>
               /\ fri_out.status = Ok
               /\ fri_out.decommitment_positions = query_positions
               /\ fri_out.witness_evals = <<>>
               /\ fri_out.value_map_positions = query_positions
               /\ fri_out.value_map_values = EvalsAt(columns, query_positions)
        /\ (fri_layer_out.status # "none" /\ Len(columns) >= 2) =>
               /\ fri_layer_out.status = Ok
               /\ fri_layer_out.decommitment_positions = query_positions
               /\ fri_layer_out.fri_witness = <<>>
               /\ fri_layer_out.value_map_positions = query_positions
               /\ fri_layer_out.value_map_values =
                      EvalsAt(columns, query_positions)

\* two of four positions queried at fold_step 0
C10_Witness ==
    /\ variant = "fri"
    /\ pc = "done"
    /\ fold_step = 0
    /\ Len(columns) = 4
    /\ query_positions = <<1, 3>>
    /\ fri_out.status = Ok
    /\ fri_out.decommitment_positions = <<1, 3>>

\* the positions 0 .. n - 1 in increasing order
PositionsBelow(n) == [i \in 1..n |-> i - 1]

\* the evaluations of the column at the positions that are no query, in
\* increasing position order
NonQueriedEvals(column, positions) ==
    EvalsAt(column,
        SelectSeq(PositionsBelow(Len(column)),
                  LAMBDA q : \A k \in 1..Len(positions) : positions[k] # q))

PositionsCoverQueries(positions) ==
    /\ IsStrictlyIncreasing(positions)
    /\ \A i \in 1..Len(positions) : positions[i] < Len(columns)
    /\ \A k \in 1..Len(query_positions) :
           \E i \in 1..Len(positions) : positions[i] = query_positions[k]

\* C12: on success with a sorted query list, decommitment_positions is
\* strictly increasing, every element lies in [0, 2^L), and every explicit
\* query position is among them.
C12_DecommitmentPositions ==
    (variant = "fri" /\ pc = "done") =>
        /\ fri_out.status = Ok =>
               PositionsCoverQueries(fri_out.decommitment_positions)
        /\ fri_layer_out.status = Ok =>
               PositionsCoverQueries(fri_layer_out.decommitment_positions)

\* the grouped decommitment built again from the state's columns and
\* queries gives the stored one
GroupedBuiltAgain(again) ==
    /\ base.root = At(grouped_layer_hashes(columns, column_log_sizes)[0], 0)
    /\ base.root = again.root
    /\ base.queried_values = again.queried_values
    /\ base.hash_witness = again.hash_witness
    /\ base.column_witness = again.column_witness

\* the root of the lifted tree over the given columns, built anew
LiftedRootOf(cols, sizes) ==
    At(lifted_layers(build_vcs_lifted_leaves(sorted_columns(cols, sizes)))[0], 0)

\* the lifted decommitment built again gives the stored one
LiftedBuiltAgain(again) ==
    /\ base.root = LiftedRootOf(columns, column_log_sizes)
    /\ base.root = again.root
    /\ base.queried_values = again.queried_values
    /\ base.hash_witness = again.hash_witness

\* the FRI results computed again by the same build give the stored ones
FriBuiltAgain ==
    /\ fri_out.status # "none" =>
           \E overflow_checks \in BOOLEAN :
               fri_out = compute_fri_decommit_outputs(columns,
                             query_positions, fold_step, overflow_checks)
    /\ fri_layer_out.status # "none" =>
           \E overflow_checks \in BOOLEAN :
               fri_layer_out = compute_fri_layer_decommit_outputs(columns,
                                   query_positions, fold_step, overflow_checks)
    /\ fri_layer_out.status = Ok =>
           fri_layer_out.commitment =
               LiftedRootOf(base_columns(columns),
                            [c \in 1..4 |-> column_log_sizes[1]])

SomeWordNonCanonical(words) == \E i \in 1..Len(words) : words[i] >= P

\* some coordinate of some secure-field wire value is not canonical
SomeQm31NonCanonical(values) ==
    \E i \in 1..Len(values) : SomeWordNonCanonical(values[i])

\* the artifact holds a non-canonical base-field value in queried_values,
\* sampled_values, the FRI witnesses, the last-layer polynomial or the
\* statement
ArtifactNonCanonical ==
    \/ SomeWordNonCanonical(artifact.proof_wire.queried_values)
    \/ SomeQm31NonCanonical(artifact.proof_wire.sampled_values)
    \/ SomeQm31NonCanonical(artifact.proof_wire.first_layer.fri_witness)
    \/ \E i \in 1..Len(artifact.proof_wire.inner_layers) :
           SomeQm31NonCanonical(artifact.proof_wire.inner_layers[i].fri_witness)
    \/ SomeQm31NonCanonical(artifact.proof_wire.last_layer_poly)
    \/ SomeWordNonCanonical(artifact.statement.public_input)
    \/ SomeQm31NonCanonical(artifact.statement.claimed_sums)

\* C14: when the artifact holds a base-field value >= P in queried_values,
\* sampled_values, a FRI witness, the last-layer polynomial or the
\* statement, run_verify returns an error and no example verifier is
\* invoked, so none sees a partially decoded proof.
C14_NonCanonicalRejected ==
    (variant = "interop" /\ pc = "done" /\ ArtifactNonCanonical) =>
        /\ verify_out.result = "error"
        /\ ~verify_out.verifier_invoked
        /\ verify_out.decoded = <<>>

\* a well-formed state_machine artifact whose only non-canonical word is
\* the word P in the statement: rejected after the proof was decoded
C14_Witness ==
    /\ variant = "interop"
    /\ pc = "done"
    /\ artifact.well_formed
    /\ artifact.example = "state_machine"
    /\ wire_to_proof(artifact.proof_wire).ok
    /\ \E i \in 1..4 : artifact.statement.public_input[i] = P
    /\ verify_out.result = "error"
    /\ ~verify_out.verifier_invoked

\* the set of the elements of a list
Elements(s) == {s[k] : k \in 1..Len(s)}

\* the indices the grouped traversal must visit at layer L: the explicit
\* queries of L and the parents of the indices visited at layer L + 1
GroupedVisitSet(visited, queries, max_log_size, L) ==
    Elements(queries[L]) \cup
        (IF L = max_log_size THEN {}
         ELSE {i \div 2 : i \in Elements(visited[L + 1])})

\* C15: at every layer L from maxL down to 0 the list of indices the
\* grouped traversal visits is strictly increasing and is, as a set, the
\* explicit queries of L together with the parents (index div 2) of the
\* indices visited at L + 1; with at least one query the list of layer 0
\* is exactly [0].
C15_GroupedVisitSet ==
    (variant = "grouped" /\ pc # "input") =>
        /\ \A L \in 0..SeqMax(column_log_sizes) :
               /\ IsStrictlyIncreasing(base.visited[L])
               /\ Elements(base.visited[L]) =
                      GroupedVisitSet(base.visited, queries_per_log_size,
                                      SeqMax(column_log_sizes), L)
        /\ (\E L \in 0..SeqMax(column_log_sizes) : queries_per_log_size[L] # <<>>)
               => base.visited[0] = <<0>>

\* a layer whose visited list mixes an explicit query with the parent of a
\* node visited one layer below, the parent being the larger of the two
C15_Witness ==
    /\ variant = "grouped" /\ pc # "input"
    /\ column_log_sizes = <<1, 2>>
    /\ queries_per_log_size[2] = <<2>>
    /\ queries_per_log_size[1] = <<0>>
    /\ base.visited[1] = <<0, 1>>
    /\ base.visited[0] = <<0>>

\* the hashes of the children 2i, 2i+1 of node i that were not visited at
\* the layer below, in that order
UnvisitedChildHashes(child_hashes, child_visited, i) ==
    (IF 2 * i \in Elements(child_visited) THEN <<>>
     ELSE <<At(child_hashes, 2 * i)>>)
    \o (IF 2 * i + 1 \in Elements(child_visited) THEN <<>>
        ELSE <<At(child_hashes, 2 * i + 1)>>)

\* the hashes layer L appends: those of the unvisited children of the
\* nodes of visited_here, taken from position k on
RECURSIVE LayerChildHashes(_, _, _, _)
LayerChildHashes(child_hashes, child_visited, visited_here, k) ==
    IF k > Len(visited_here) THEN <<>>
    ELSE UnvisitedChildHashes(child_hashes, child_visited, visited_here[k])
         \o LayerChildHashes(child_hashes, child_visited, visited_here, k + 1)

\* the hashes appended by layers L down to 0
RECURSIVE ChildHashesFrom(_, _, _)
ChildHashesFrom(layer_hashes, visited, L) ==
    IF L < 0 THEN <<>>
    ELSE LayerChildHashes(layer_hashes[L + 1], visited[L + 1], visited[L], 1)
         \o ChildHashesFrom(layer_hashes, visited, L - 1)

\* the sum over layers L down to 0 of 2 * |visited(L)| - |visited(L + 1)|
RECURSIVE ChildHashCount(_, _)
ChildHashCount(visited, L) ==
    IF L < 0 THEN 0
    ELSE 2 * Len(visited[L]) - Len(visited[L + 1]) + ChildHashCount(visited, L - 1)

\* C16: in the grouped decommitment, for each index i visited at a layer
\* L < maxL the hash of child 2i and then of child 2i+1 is appended to the
\* hash witness iff that child was not visited at layer L + 1; layer maxL
\* appends nothing; layer L appends 2 * |visited(L)| - |visited(L + 1)|
\* hashes.
C16_GroupedHashWitness ==
    (variant = "grouped" /\ pc # "input") =>
        /\ base.hash_witness =
               ChildHashesFrom(base.layers, base.visited,
                               SeqMax(column_log_sizes) - 1)
        /\ Len(base.hash_witness) =
               ChildHashCount(base.visited, SeqMax(column_log_sizes) - 1)
        /\ \A L \in 0..(SeqMax(column_log_sizes) - 1) :
               Len(LayerChildHashes(base.layers[L + 1], base.visited[L + 1],
                                    base.visited[L], 1))
                   = 2 * Len(base.visited[L]) - Len(base.visited[L + 1])

\* three of the four leaves queried: layer 1 visits both nodes and appends
\* the hash of leaf 3 only, layer 0 appends nothing
C16_Witness ==
    /\ variant = "grouped" /\ pc # "input"
    /\ SeqMax(column_log_sizes) = 2
    /\ base.visited[2] = <<0, 1, 2>>
    /\ base.visited[1] = <<0, 1>>
    /\ base.hash_witness = <<At(base.layers[2], 3)>>

\* the values at index i of the columns j, j+1, ... whose log-size is L, in
\* input order
RECURSIVE NativeValuesAt(_, _, _, _, _)
NativeValuesAt(cols, sizes, L, i, j) ==
    IF j > Len(sizes) THEN <<>>
    ELSE (IF sizes[j] = L THEN <<At(cols[j], i)>> ELSE <<>>)
         \o NativeValuesAt(cols, sizes, L, i, j + 1)

\* the number of columns whose log-size is L
NativeCount(sizes, L) == Cardinality({j \in 1..Len(sizes) : sizes[j] = L})

\* the values of the nodes of visited_here, from position k on, that are
\* (explicit = TRUE) or are not (explicit = FALSE) explicit queries of L
RECURSIVE LayerValues(_, _, _, _, _, _, _)
LayerValues(cols, sizes, L, visited_here, queries_here, explicit, k) ==
    IF k > Len(visited_here) THEN <<>>
    ELSE (IF (visited_here[k] \in Elements(queries_here)) = explicit
          THEN NativeValuesAt(cols, sizes, L, visited_here[k], 1) ELSE <<>>)
         \o LayerValues(cols, sizes, L, visited_here, queries_here, explicit, k + 1)

\* the values routed by layers L down to 0
RECURSIVE ValuesFrom(_, _, _, _, _, _)
ValuesFrom(cols, sizes, visited, queries, explicit, L) ==
    IF L < 0 THEN <<>>
    ELSE LayerValues(cols, sizes, L, visited[L], queries[L], explicit, 1)
         \o ValuesFrom(cols, sizes, visited, queries, explicit, L - 1)

\* the sum over layers L down to 0 of |queries(L)| * |columns(L)|
RECURSIVE QueriedValueCount(_, _, _)
QueriedValueCount(sizes, queries, L) ==
    IF L < 0 THEN 0
    ELSE Len(queries[L]) * NativeCount(sizes, L)
         + QueriedValueCount(sizes, queries, L - 1)

\* the sum over layers L down to 0 of
\* (|visited(L)| - |queries(L)|) * |columns(L)|
RECURSIVE ColumnWitnessCount(_, _, _, _)
ColumnWitnessCount(sizes, visited, queries, L) ==
    IF L < 0 THEN 0
    ELSE (Len(visited[L]) - Len(queries[L])) * NativeCount(sizes, L)
         + ColumnWitnessCount(sizes, visited, queries, L - 1)

\* C17: in the grouped decommitment the values at a visited index i of all
\* columns native to layer L, in input order, go to queried_values if i is
\* an explicit query of L and to column_witness otherwise; both vectors are
\* ordered by decreasing layer, then increasing index, then column order;
\* |queried_values| is the sum of |queries(L)| * |columns(L)| and
\* |column_witness| the sum of (|visited(L)| - |queries(L)|) * |columns(L)|.
C17_GroupedValueRouting ==
    (variant = "grouped" /\ pc # "input") =>
        /\ base.queried_values =
               ValuesFrom(columns, column_log_sizes, base.visited,
                          queries_per_log_size, TRUE, SeqMax(column_log_sizes))
        /\ base.column_witness =
               ValuesFrom(columns, column_log_sizes, base.visited,
                          queries_per_log_size, FALSE, SeqMax(column_log_sizes))
        /\ Len(base.queried_values) =
               QueriedValueCount(column_log_sizes, queries_per_log_size,
                                 SeqMax(column_log_sizes))
        /\ Len(base.column_witness) =
               ColumnWitnessCount(column_log_sizes, base.visited,
                                  queries_per_log_size, SeqMax(column_log_sizes))

\* two columns native to layer 1 and one to layer 2: node 0 of layer 1 is an
\* explicit query, node 1 is only the parent of the queried leaf 2, so each
\* vector receives the values of both layer-1 columns in input order
C17_Witness ==
    /\ variant = "grouped" /\ pc # "input"
    /\ column_log_sizes = <<1, 1, 2>>
    /\ queries_per_log_size[2] = <<2>>
    /\ queries_per_log_size[1] = <<0>>
    /\ base.queried_values =
           <<At(columns[3], 2), At(columns[1], 0), At(columns[2], 0)>>
    /\ base.column_witness = <<At(columns[1], 1), At(columns[2], 1)>>

\* what the planner must return on the two iterators: None when both are
\* exhausted, the one candidate when one is, else the smaller of the parent
\* of the next known child and the next query of the layer
PlannedNode(prev_queries, layer_queries) ==
    IF prev_queries = <<>> /\ layer_queries = <<>> THEN None
    ELSE IF prev_queries = <<>> THEN Head(layer_queries)
    ELSE IF layer_queries = <<>> THEN Head(prev_queries) \div 2
    ELSE IF Head(prev_queries) \div 2 < Head(layer_queries)
         THEN Head(prev_queries) \div 2 ELSE Head(layer_queries)

\* the number of elements left in the two iterators of a loop state
WalkRemaining(w) ==
    Len(w.st.prev_layer_queries) + Len(w.st.layer_column_queries)

\* the planner's answer and the iteration bound in one state of the loop
WalkPlannerAndBound ==
    variant = "walk" =>
        /\ next_decommitment_node_for_prover(
               walk.st.prev_layer_queries, walk.st.layer_column_queries)
             = PlannedNode(walk.st.prev_layer_queries, walk.st.layer_column_queries)
        /\ (next_decommitment_node_for_prover(
                walk.st.prev_layer_queries, walk.st.layer_column_queries) = None)
             <=> (walk.st.prev_layer_queries = <<>>
                    /\ walk.st.layer_column_queries = <<>>)
        /\ walk.iterations + WalkRemaining(walk)
             <= Len(walk.known) + Len(walk.queries)
        /\ walk.iterations <= Len(walk.known) + Len(walk.queries)

\* an iteration of the loop leaves fewer elements in the two iterators
WalkConsumes ==
    variant = "walk" => WalkRemaining(walk') < WalkRemaining(walk)

\* C18: the planner returns the minimum of (head of the known-child list
\* div 2) and (head of the layer's query list), and None exactly when both
\* are exhausted; every iteration of the per-layer loop consumes at least
\* one element of one of the two iterators, so for any finite inputs, also
\* unsorted ones and ones with duplicates, the loop ends after at most
\* |known| + |queries| iterations.
C18_MergeWalkTerminates == [](WalkPlannerAndBound) /\ [][WalkConsumes]_vars

\* an unsorted list of known children and a list with a duplicate query:
\* each of the four iterations consumed exactly one element
C18_Witness ==
    /\ variant = "walk"
    /\ walk.known = <<1, 0>>
    /\ walk.queries = <<1, 1>>
    /\ walk.iterations = 4
    /\ WalkRemaining(walk) = 0

\* columns of the given log-sizes holding other values than the sampled
\* ones, all distinct
OtherColumns(sizes) ==
    [j \in 1..Len(sizes) |-> [i \in 1..Pow2(sizes[j]) |-> 100 + 10 * j + i]]

\* the traversal of a grouped base case: the visited list of every layer
\* and the number of entries of each stream
GroupedTraversalShape(b) ==
    [visited |-> b.visited,
     hash_witness |-> Len(b.hash_witness),
     column_witness |-> Len(b.column_witness),
     queried_values |-> Len(b.queried_values)]

\* the traversal of a lifted base case: the known list of every layer, the
\* number of hashes and the number of values per column
LiftedTraversalShape(b) ==
    [visited |-> b.visited,
     hash_witness |-> Len(b.hash_witness),
     queried_values |-> [c \in 1..Len(b.queried_values) |-> Len(b.queried_values[c])]]

\* the grouped verifier's replay from layer L down, recording the indices
\* it visits at every layer; out is its state after layer 0
RECURSIVE GroupedVerifierReplay(_, _, _, _, _, _)
GroupedVerifierReplay(sizes, queries, max_log_size, L, st, acc) ==
    IF L < 0 THEN [visited |-> acc, out |-> st]
    ELSE GroupedVerifierReplay(sizes, queries, max_log_size, L - 1,
             next_verify_state(
                 grouped_verify_layer(L # max_log_size, NativeCount(sizes, L), st),
                 queries, L),
             [acc EXCEPT ![L] =
                 Firsts(grouped_verify_layer(L # max_log_size,
                                             NativeCount(sizes, L), st)
                            .layer_total_queries)])

\* the indices the lifted verifier holds hashes for at layer L
LiftedVerifierKnown(sizes, positions, queried_values, hash_witness, L) ==
    Firsts(lifted_verify_layers(SeqMax(sizes) - L,
               lifted_verify_start(sizes, positions, queried_values,
                                   hash_witness)).prev_layer_hashes)

\* the grouped verifier's replay of the stored base case
GroupedReplayOfBase ==
    GroupedVerifierReplay(column_log_sizes, queries_per_log_size,
        SeqMax(column_log_sizes), SeqMax(column_log_sizes),
        grouped_verify_start(column_log_sizes, queries_per_log_size,
            base.queried_values, base.hash_witness, base.column_witness),
        [L \in 0..SeqMax(column_log_sizes) |-> <<>>])

\* the grouped half of C19
GroupedTraversalIdentity ==
    /\ GroupedTraversalShape(
           grouped_prove(OtherColumns(column_log_sizes), column_log_sizes,
                         queries_per_log_size))
         = GroupedTraversalShape(base)
    /\ LET replay == GroupedReplayOfBase
       IN  /\ replay.visited = base.visited
           /\ replay.out.err = Ok
           /\ replay.out.hash_witness = <<>>
           /\ replay.out.column_witness = <<>>
           /\ replay.out.queried_values = <<>>

\* the lifted half of C19
LiftedTraversalIdentity ==
    /\ LiftedTraversalShape(
           lifted_prove(OtherColumns(column_log_sizes), column_log_sizes,
                        query_positions))
         = LiftedTraversalShape(base)
    /\ \A L \in 0..SeqMax(column_log_sizes) :
           LiftedVerifierKnown(column_log_sizes, query_positions,
                               base.queried_values, base.hash_witness, L)
             = base.visited[L]
    /\ LET replay == lifted_verify_layers(SeqMax(column_log_sizes),
                         lifted_verify_start(column_log_sizes, query_positions,
                             base.queried_values, base.hash_witness))
       IN  /\ replay.err = Ok
           /\ replay.hash_witness = <<>>

\* C19: the visited (layer, index) sequence and the numbers of
\* hash_witness, column_witness and queried_values entries depend only on
\* column_log_sizes and the query positions, not on column values, hashes
\* or the root; a verifier replaying the traversal visits the same indices
\* in the same order and consumes exactly the entries the builder emitted.
C19_TraversalIdentity ==
    /\ (variant = "grouped" /\ pc # "input") => GroupedTraversalIdentity
    /\ (variant = "lifted" /\ pc # "input") => LiftedTraversalIdentity

\* a grouped base case with entries in all three streams whose root changes
\* with the column values while the traversal does not
C19_Witness ==
    /\ variant = "grouped" /\ pc # "input"
    /\ base.hash_witness # <<>>
    /\ base.column_witness # <<>>
    /\ Len(base.queried_values) >= 2
    /\ grouped_prove(OtherColumns(column_log_sizes), column_log_sizes,
                     queries_per_log_size).root # base.root
    /\ GroupedTraversalIdentity

\* the local index of global position p in a column of log-size log_size
\* of a tree of depth max_log_size: (p >> (shift + 1) << 1) + (p & 1) with
\* shift = max_log_size - log_size, written with division and remainder
DirectIndex(p, max_log_size, log_size) ==
    ((p \div Pow2(max_log_size - log_size + 1)) * 2) + (p % 2)

\* the hasher of the leaf at position p after absorbing, for every column
\* of order, the value at its direct index
RECURSIVE DirectLeaf(_, _, _, _, _, _)
DirectLeaf(hasher, cols, sizes, order, max_log_size, p) ==
    IF order = <<>> THEN hasher
    ELSE DirectLeaf(
             update_leaf(hasher,
                 At(cols[Head(order)],
                    DirectIndex(p, max_log_size, sizes[Head(order)]))),
             cols, sizes, Tail(order), max_log_size, p)

WideningPreimages(old, log_size, ratio) ==
    {idx \in 0..(Pow2(log_size) - 1) : lifted_index(idx, ratio) = old}

\* the contract of the widening map from width 2^prev_log_size to width
\* 2^log_size
WideningContract(prev_log_size, log_size) ==
    /\ \A idx \in 0..(Pow2(log_size) - 1) :
           /\ lifted_index(idx, log_size - prev_log_size) \in
                  0..(Pow2(prev_log_size) - 1)
           /\ lifted_index(idx, log_size - prev_log_size) % 2 = idx % 2
           /\ log_size = prev_log_size =>
                  lifted_index(idx, log_size - prev_log_size) = idx
    /\ \A old \in 0..(Pow2(prev_log_size) - 1) :
           Cardinality(WideningPreimages(old, log_size, log_size - prev_log_size))
             = Pow2(log_size - prev_log_size)

\* C21: for all 1 <= Lprev <= Lc, ratio = Lc - Lprev and idx in [0, 2^Lc),
\* the value (idx >> (ratio+1) << 1) + (idx & 1) lies in [0, 2^Lprev), has
\* the lowest bit of idx, is idx itself when ratio = 0, and every old index
\* has exactly 2^ratio preimages.  Checked for every pair of widths up to
\* the depth of the lifted tree that was built.
C21_LiftedReindexing ==
    (variant = "lifted" /\ pc # "input") =>
        \A log_size \in 1..SeqMax(column_log_sizes) :
            \A prev_log_size \in 1..log_size :
                WideningContract(prev_log_size, log_size)

\* a tree whose leaves were widened from width 2 to width 4: the four new
\* indices map to 0, 1, 0, 1
C21_Witness ==
    /\ variant = "lifted" /\ pc # "input"
    /\ column_log_sizes = <<1, 2>>
    /\ [idx \in 0..3 |-> lifted_index(idx, 1)] = [idx \in 0..3 |-> idx % 2]
    /\ WideningPreimages(1, 2, 1) = {1, 3}

\* the k-th index of a known list is a member of a sibling pair: its
\* successor is index^1, or it is the successor of its index^1
InSiblingPair(known, k) ==
    \/ k < Len(known) /\ known[k + 1] = Xor1(known[k])
    \/ k > 1 /\ known[k] = Xor1(known[k - 1])

\* the hashes one layer emits: for every index of known from position k
\* on that is in no pair, the hash at index^1 of that layer
RECURSIVE SiblingHashes(_, _, _)
SiblingHashes(layer_hashes, known, k) ==
    IF k > Len(known) THEN <<>>
    ELSE (IF InSiblingPair(known, k) THEN <<>>
          ELSE <<At(layer_hashes, Xor1(known[k]))>>)
         \o SiblingHashes(layer_hashes, known, k + 1)

\* the hashes emitted by layers L down to 1, the deeper layer first
RECURSIVE SiblingHashesFrom(_, _, _)
SiblingHashesFrom(layers, known, L) ==
    IF L < 1 THEN <<>>
    ELSE SiblingHashes(layers[L], known[L], 1)
         \o SiblingHashesFrom(layers, known, L - 1)

\* C22: in the lifted witness walk, starting from a strictly increasing
\* query list, the known-index list is strictly increasing at every layer
\* from the leaves to the root and is [0] after the last layer; an index
\* whose successor in the list is index^1 forms a pair that emits nothing,
\* every other index emits the hash at index^1 of its layer, and the
\* hashes are appended leaf layer first, in increasing index order within
\* a layer.
C22_LiftedWitnessWalk ==
    (variant = "lifted" /\ pc # "input" /\ query_positions # <<>>
       /\ IsStrictlyIncreasing(query_positions)) =>
        /\ base.visited[SeqMax(column_log_sizes)] = query_positions
        /\ \A L \in 0..SeqMax(column_log_sizes) :
               IsStrictlyIncreasing(base.visited[L])
        /\ \A L \in 0..(SeqMax(column_log_sizes) - 1) :
               Elements(base.visited[L]) =
                   {i \div 2 : i \in Elements(base.visited[L + 1])}
        /\ base.visited[0] = <<0>>
        /\ base.hash_witness =
               SiblingHashesFrom(base.layers, base.visited,
                                 SeqMax(column_log_sizes))

\* leaves 1 and 2 of a tree of depth 2: neither has its sibling, so the
\* hashes of leaves 0 and 3 are emitted in that order; their parents 0 and
\* 1 form a pair that emits nothing
C22_Witness ==
    /\ variant = "lifted" /\ pc # "input"
    /\ SeqMax(column_log_sizes) = 2
    /\ query_positions = <<1, 2>>
    /\ base.visited[1] = <<0, 1>>
    /\ InSiblingPair(base.visited[1], 1)
    /\ base.hash_witness = <<At(base.layers[2], 0), At(base.layers[2], 3)>>

\* the keys q >> F of the queries
SubsetKeys(positions, F) ==
    {positions[k] \div Pow2(F) : k \in 1..Len(positions)}

\* the positions of the subsets of the queries, in increasing order, each
\* once
SubsetPositions(column, positions, F) ==
    SelectSeq(PositionsBelow(Len(column)),
              LAMBDA p : p \div Pow2(F) \in SubsetKeys(positions, F))

\* the positions of the subsets that are not explicit queries, in
\* increasing order
NonQueriedSubsetPositions(column, positions, F) ==
    SelectSeq(SubsetPositions(column, positions, F),
              LAMBDA p : p \notin Elements(positions))

\* the query list is strictly increasing and in range, and so is every
\* position of the subsets it selects
FriWellFormedQueries ==
    /\ IsStrictlyIncreasing(query_positions)
    /\ \A k \in 1..Len(query_positions) : query_positions[k] < Len(columns)
    /\ fold_step < UsizeBits
    /\ ~SomeSubsetPositionOutOfRange

\* the classification of the claim, on the outputs of either function
FriClassified(status, decommitment_positions, witness, map_positions, map_values) ==
    /\ status = Ok
    /\ decommitment_positions =
           SubsetPositions(columns, query_positions, fold_step)
    /\ IsStrictlyIncreasing(decommitment_positions)
    /\ witness = EvalsAt(columns,
           NonQueriedSubsetPositions(columns, query_positions, fold_step))
    /\ Len(witness) =
           Cardinality(SubsetKeys(query_positions, fold_step)) * Pow2(fold_step)
             - Len(query_positions)
    /\ map_positions = decommitment_positions
    /\ map_values = EvalsAt(columns, decommitment_positions)

\* C23: for a strictly increasing in-range query list every position of
\* every visited subset range is visited once, in increasing order; its
\* evaluation is appended to fri_witness iff the position is not an
\* explicit query, explicit queries take no witness slot, and
\* |fri_witness| = (number of distinct subset keys) * 2^F - |queries|.
C23_FriClassification ==
    (variant = "fri" /\ pc = "done" /\ FriWellFormedQueries) =>
        /\ fri_out.status # "none" =>
               FriClassified(fri_out.status, fri_out.decommitment_positions,
                   fri_out.witness_evals, fri_out.value_map_positions,
                   fri_out.value_map_values)
        /\ (fri_layer_out.status # "none" /\ Len(columns) >= 2) =>
               FriClassified(fri_layer_out.status,
                   fri_layer_out.decommitment_positions,
                   fri_layer_out.fri_witness,
                   fri_layer_out.value_map_positions,
                   fri_layer_out.value_map_values)

\* positions 1 and 2 of four with subsets of two: both subsets are visited,
\* the evaluations at 0 and 3 are the witness
C23_Witness ==
    /\ variant = "fri"
    /\ pc = "done"
    /\ fold_step = 1
    /\ Len(columns) = 4
    /\ query_positions = <<1, 2>>
    /\ fri_out.status = Ok
    /\ fri_out.decommitment_positions = <<0, 1, 2, 3>>
    /\ fri_out.witness_evals = <<columns[1], columns[4]>>

\* the two families of length errors
WitnessFamily == {"WitnessTooShort", "WitnessTooLong"}

ValuesFamily == {"TooFewQueriedValues", "TooManyQueriedValues"}

\* the verdict on the root of the base case and its three streams
ValidVerdict ==
    run_vcs_verifier(base.root, column_log_sizes, queries_per_log_size,
        base.queried_values, base.hash_witness, base.column_witness)

\* the witness streams of case c meet a WitnessTooShort / WitnessTooLong
\* condition: that is the verdict once the queried values are the valid
\* ones, whatever the order of the verifier's checks (valid is the verdict
\* on the base case, which is the one to take when c has the root and the
\* witness streams of the base case)
MeetsWitnessCondition(c, valid) ==
    (IF c.root = base.root /\ c.hash_witness = base.hash_witness
          /\ c.column_witness = base.column_witness
     THEN valid
     ELSE run_vcs_verifier(c.root, column_log_sizes, queries_per_log_size,
              base.queried_values, c.hash_witness, c.column_witness))
      \in WitnessFamily

\* the queried values of case c meet a TooFewQueriedValues /
\* TooManyQueriedValues condition: that is the verdict once the witness
\* streams are the valid ones
MeetsValuesCondition(c, valid) ==
    (IF c.root = base.root /\ c.queried_values = base.queried_values
     THEN valid
     ELSE run_vcs_verifier(c.root, column_log_sizes, queries_per_log_size,
              c.queried_values, base.hash_witness, base.column_witness))
      \in ValuesFamily

\* the states holding inputs of the grouped verifier: the cases built from
\* a base case, or a decommitment with tampered streams
GroupedInputsVerified ==
    \/ variant = "grouped" /\ pc = "cases"
    \/ variant = "tampered" /\ pc = "done"

\* case c changes the length of the streams of at most one family
OneFamilyTampered(c) ==
    variant = "tampered" =>
        \/ c.case[3] = "same"
        \/ c.case[1] = "same" /\ c.case[2] = "same"

\* C24: in grouped verification an input whose streams of one family are
\* as the valid decommitment has them meets the length condition of at
\* most one family, and the reported error is of the family whose
\* condition is met; this covers every case build_vcs_verifier_cases
\* builds.  An input tampered in both families meets both conditions, and
\* the reported error is then of one of the two.
C24_ErrorFamilies ==
    GroupedInputsVerified =>
        LET valid == ValidVerdict
        IN  \A c \in vcases :
                LET witness_met == MeetsWitnessCondition(c, valid)
                    values_met == MeetsValuesCondition(c, valid)
                IN  /\ OneFamilyTampered(c) =>
                           /\ ~(witness_met /\ values_met)
                           /\ witness_met => c.expected \in WitnessFamily
                           /\ values_met => c.expected \in ValuesFamily
                    /\ c.expected \in WitnessFamily => witness_met
                    /\ c.expected \in ValuesFamily => values_met

\* a decommitment whose hash witness alone was popped: the witness
\* condition is met, the one of the queried values is not
C24_Witness ==
    /\ variant = "tampered" /\ pc = "done"
    /\ \E c \in vcases :
           /\ c.case = <<"short", "same", "same">>
           /\ MeetsWitnessCondition(c, ValidVerdict)
           /\ ~MeetsValuesCondition(c, ValidVerdict)
           /\ c.expected = "WitnessTooShort"

\* C24 as the specification states it: no malformed input meets the
\* conditions of both families
C24_Original ==
    GroupedInputsVerified =>
        \A c \in vcases :
            ~(MeetsWitnessCondition(c, ValidVerdict) /\ MeetsValuesCondition(c, ValidVerdict))

\* the position classification of the layer function succeeds under either
\* build profile, so the function goes on to build the lifted leaves
LeafConstructionReached ==
    /\ variant = "fri"
    /\ pc = "done"
    /\ fri_layer_out.status # "none"
    /\ \A overflow_checks \in BOOLEAN :
           compute_fri_decommit_outputs(columns, query_positions, fold_step,
                                        overflow_checks).status = Ok

\* C25: for every column set whose columns have lengths 2^L with L >= 0, a
\* column of length 1 included, building the lifted leaf layer returns a
\* result or a typed error and never aborts.
C25_LiftedLeavesTotal ==
    LeafConstructionReached =>
        /\ ~lifted_leaves_aborts(base_columns(columns))
        /\ fri_layer_out.status # Panic

\* the leaf of one secure-field element: its coordinates 0, 1, 2, 3
\* absorbed in that order
CoordinateLeaf(value) ==
    finalize(update_leaf(update_leaf(update_leaf(update_leaf(
        default_with_initial_state, value[1]), value[2]), value[3]), value[4]))

\* the root over a layer of hashes: pairs of neighbours hashed until one
\* hash is left
RECURSIVE RootOver(_)
RootOver(hashes) ==
    IF Len(hashes) = 1 THEN hashes[1]
    ELSE RootOver([i \in 1..(Len(hashes) \div 2) |->
                      hash_children(hashes[2 * i - 1], hashes[2 * i])])

\* the commitment as a function of the column alone
CoordinateRoot(column) ==
    RootOver([i \in 1..Len(column) |-> CoordinateLeaf(column[i])])

\* C26: the commitment returned by the FRI layer decommitment is the
\* lifted root over the four coordinate columns of the secure-field
\* column, coordinate 0 absorbed first, then 1, 2, 3; for a fixed column
\* it is the same for every fold step and every query list on which the
\* decommitment succeeds.
C26_CommitmentIndependence ==
    (variant = "fri" /\ pc = "done" /\ fri_layer_out.status = Ok) =>
        /\ fri_layer_out.commitment = CoordinateRoot(columns)
        /\ fri_layer_out.commitment =
               LiftedRootOf(base_columns(columns),
                            [c \in 1..4 |-> column_log_sizes[1]])
        /\ \A F \in 0..(UsizeBits - 1) : \A overflow_checks \in BOOLEAN :
               compute_fri_layer_decommit_outputs(columns, query_positions, F,
                   overflow_checks).status = Ok
                 => compute_fri_layer_decommit_outputs(columns, query_positions,
                        F, overflow_checks).commitment = fri_layer_out.commitment
        /\ compute_fri_layer_decommit_outputs(columns, <<>>, fold_step, TRUE)
             .commitment = fri_layer_out.commitment

\* a column of four elements decommitted at one query with subsets of two:
\* the commitment is the root over the four coordinate leaves
C26_Witness ==
    /\ variant = "fri" /\ pc = "done"
    /\ Len(columns) = 4
    /\ fold_step = 1
    /\ query_positions = <<2>>
    /\ fri_layer_out.status = Ok
    /\ fri_layer_out.commitment =
           hash_children(
               hash_children(CoordinateLeaf(columns[1]), CoordinateLeaf(columns[2])),
               hash_children(CoordinateLeaf(columns[3]), CoordinateLeaf(columns[4])))

\* the tree of the FRI layer decommitment: layers[L] holds the hashes of
\* layer L, the leaves being the last
FriLayers == lifted_layers(build_vcs_lifted_leaves(base_columns(columns)))

\* the list of distinct subset keys q >> F of an increasing query list
SubsetKeyList(positions, F) ==
    dedup([k \in 1..Len(positions) |-> positions[k] \div Pow2(F)])

\* C27: for a strictly increasing in-range query list and F <= L, whole
\* subsets drive the Merkle decommitment of the FRI layer: no hash of the
\* F layers nearest the leaves (layers L down to L - F + 1) is in
\* hash_witness, and the length of hash_witness is the lifted witness
\* length of the key set {q >> F} in a tree of depth L - F.
C27_FriHashWitnessShape ==
    (variant = "fri" /\ pc = "done" /\ fri_layer_out.status = Ok
       /\ IsStrictlyIncreasing(query_positions)
       /\ fold_step <= column_log_sizes[1]
       /\ \A k \in 1..Len(query_positions) :
              query_positions[k] < Len(columns)) =>
        /\ \A L \in (column_log_sizes[1] - fold_step + 1)..column_log_sizes[1] :
               \A i \in 1..Len(fri_layer_out.hash_witness) :
                   fri_layer_out.hash_witness[i] \notin Elements(FriLayers[L])
        /\ Len(fri_layer_out.hash_witness) =
               UnpairedCount(SubsetKeyList(query_positions, fold_step),
                             column_log_sizes[1] - fold_step,
                             column_log_sizes[1] - fold_step)

\* one query of four positions with subsets of two: the subset is a
\* sibling pair of leaves, and the one hash of the witness is the node
\* beside their parent
C27_Witness ==
    /\ variant = "fri" /\ pc = "done"
    /\ column_log_sizes = <<2>>
    /\ fold_step = 1
    /\ query_positions = <<1>>
    /\ fri_layer_out.status = Ok
    /\ fri_layer_out.hash_witness = <<At(FriLayers[1], 1)>>

\* the subsets of the queries in the order the loop takes them: the first
\* one reaching beyond the column is the topmost subset of the index range
TopmostSubsetReached ==
    /\ query_positions # <<>>
    /\ \E k \in 1..Len(query_positions) :
           /\ query_positions[k] \div Pow2(fold_step)
                = (UsizeModulus - 1) \div Pow2(fold_step)
           /\ \A j \in 1..(k - 1) :
                  \/ query_positions[j] \div Pow2(fold_step)
                       = query_positions[k] \div Pow2(fold_step)
                  \/ (query_positions[j] \div Pow2(fold_step)) * Pow2(fold_step)
                       + Pow2(fold_step) <= Len(columns)

\* C28: for every fold_step F below the native index width w and every
\* query position representable in w bits, the subset bounds key << F and
\* (key << F) + 2^F are computed without wrap-around and without an
\* overflow abort, so a query in the topmost subset of the index range is
\* still range-checked and reported as QueryOutOfRange.
C28_NoIndexOverflow ==
    (variant = "fri" /\ pc = "done" /\ fold_step < UsizeBits) =>
        /\ fri_out.status # Panic
        /\ (TopmostSubsetReached /\ fri_out.status # "none") =>
               fri_out.status = QueryOutOfRange
        /\ (TopmostSubsetReached /\ fri_layer_out.status # "none") =>
               fri_layer_out.status = QueryOutOfRange


FriErrors == {FoldStepTooLarge, QueryOutOfRange}

FriRepeatedQueries ==
    /\ \A k \in 1..Len(query_positions) - 1 :
           query_positions[k] <= query_positions[k + 1]
    /\ \A k \in 1..Len(query_positions) : query_positions[k] < Len(columns)
    /\ fold_step < UsizeBits
    /\ ~SomeSubsetPositionOutOfRange

\* no evaluation of a queried position in the witness, and the witness as
\* long as the visited positions less the distinct queried ones
FriRepeatTolerant(status, decommitment_positions, witness) ==
    /\ status = Ok
    /\ witness = EvalsAt(columns,
           NonQueriedSubsetPositions(columns, query_positions, fold_step))
    /\ Len(witness) = Len(decommitment_positions)
                        - Cardinality(Elements(query_positions))

\* C30: for an in-range, non-decreasing query list that may hold a position
\* more than once, fold_decommit never appends the evaluation of an
\* explicitly queried position to fri_witness, and |fri_witness| =
\* |decommitment_positions| - (number of distinct queried positions).
C30_RepeatedQueries ==
    (variant = "fri" /\ pc = "done" /\ FriRepeatedQueries) =>
        /\ fri_out.status # "none" =>
               FriRepeatTolerant(fri_out.status,
                   fri_out.decommitment_positions, fri_out.witness_evals)
        /\ (fri_layer_out.status # "none" /\ Len(columns) >= 2) =>
               FriRepeatTolerant(fri_layer_out.status,
                   fri_layer_out.decommitment_positions,
                   fri_layer_out.fri_witness)

====
